---------------------------- MODULE Spec2Model ----------------------------
(***************************************************************************)
(* influx-mcp: the dialect-abstraction layer of an InfluxDB v1/v2 adapter. *)
(* Client selection at import time (client.py), the time range parser      *)
(* (utils.py), the query builders and schema listings (queries.py), the    *)
(* tools of the server (server.py) and the settings' repr (config.py), as  *)
(* a state machine of one server process.                                  *)
(*                                                                         *)
(* Text is modelled as a sequence of tokens: concatenation is \o, an       *)
(* f-string is the concatenation of its literal pieces and its values.     *)
(***************************************************************************)
EXTENDS Integers, Sequences, FiniteSets, TLC

VARIABLES
    phase,          \* "boot" before client.py is imported, "serving" after
    settings,       \* config.settings: [influx_version, influx_url]
    influx_client,  \* client.influx_client: the process-wide client
    init_error,     \* the exception caught at client.py:175 ("" when none)
    probes,         \* the detection endpoints requested so far, in order
    pc,             \* "idle", or "returned" while a call's outcome is held
    call            \* the last call: its operation, inputs and outcome

vars == <<phase, settings, influx_client, init_error, probes, pc, call>>

(***************************************************************************)
(* Bounds of the model.                                                    *)
(***************************************************************************)
\* The clock readings of one call lie in NowBase .. NowBase + MaxClock.
MaxClock == 1
\* Relative expressions carry at most MaxDigits digits.
MaxDigits == 2
\* The backend answers a query with at most MaxRecords records.
MaxRecords == 2
\* The retention policies of one database are at most MaxPolicies.
MaxPolicies == 2
\* A measurement has at most MaxKeys tag keys.
MaxKeys == 2
\* A tag key has at most TagValueLimit + MaxExcess values.
MaxExcess == 1

(***************************************************************************)
(* Python values.                                                          *)
(***************************************************************************)
\* None, where a text is expected (Optional[str]).
None == <<"<None>">>

\* bool(x) of an Optional[str]: None and "" are falsy.
Truthy(x) == x # None /\ x # <<>>

Raise(exc, msg) == [ok |-> FALSE, exc |-> exc, msg |-> msg]
Return(val) == [ok |-> TRUE, val |-> val]

RECURSIVE Join(_, _)
\* sep.join(parts), parts a sequence of token sequences.
Join(parts, sep) ==
    IF parts = <<>> THEN <<>>
    ELSE IF Len(parts) = 1 THEN parts[1]
    ELSE parts[1] \o sep \o Join(Tail(parts), sep)

RECURSIVE Split(_, _)
\* text.split(sep): the parts between the occurrences of the token sep.
Split(text, sep) ==
    IF \A i \in 1..Len(text) : text[i] # sep THEN <<text>>
    ELSE LET i == CHOOSE k \in 1..Len(text) :
                      text[k] = sep /\ \A j \in 1..(k-1) : text[j] # sep
         IN <<SubSeq(text, 1, i-1)>> \o Split(SubSeq(text, i+1, Len(text)), sep)

(***************************************************************************)
(* client.py: the clients and their selection.                             *)
(***************************************************************************)
\* INFLUX_URL values: without a port, with a port, with a port and a path.
Urls == { <<"http", ":", "//influx">>,
          <<"http", ":", "//influx", ":", "8086">>,
          <<"http", ":", "//influx", ":", "8086", "/">> }

Versions == {"auto", "1", "2"}

SettingsSet == [influx_version : Versions, influx_url : Urls]

\* int(text): the texts that are one run of decimal digits convert.
IsIntLiteral(text) == text \in {<<"8086">>, <<"80">>}

\* What a detection probe (requests.get, client.py:150 and :160) can give:
\* a status code, or 0 for a requests.RequestException.
ProbeOutcomes == {200, 204, 404, 0}

V2_READY == "/api/v2/ready"
V1_PING == "/ping"

\* The error of get_influx_client when no dialect is selected (client.py:168).
CouldNotDetect ==
    Raise("ConnectionError",
          <<"Could not auto-detect InfluxDB version. ",
            "Please specify INFLUX_VERSION=1 or INFLUX_VERSION=2.">>)

\* InfluxDBV1ClientImpl.__init__: the port is int() of the third ":"-part of the
\* URL when there is one, which raises ValueError on a part that is not a number.
InfluxDBV1ClientImpl(s) ==
    LET parts == Split(s.influx_url, ":")
    IN IF Len(parts) > 2 /\ ~IsIntLiteral(parts[3])
       THEN Raise("ValueError", <<"invalid literal for int() with base 10: ", "'">>
                                   \o parts[3] \o <<"'">>)
       ELSE Return([version |-> "1"])

InfluxDBV2ClientImpl(s) == Return([version |-> "2"])

\* Mutant of get_influx_client: the ping endpoint is probed for an explicit "1".
get_influx_client_probing(s, r2, r1) ==
    IF s.influx_version = "2"
    THEN [out |-> InfluxDBV2ClientImpl(s), probed |-> <<>>]
    ELSE IF s.influx_version = "1"
    THEN [out |-> InfluxDBV1ClientImpl(s), probed |-> <<V1_PING>>]
    ELSE IF r2 = 200
    THEN [out |-> InfluxDBV2ClientImpl(s), probed |-> <<V2_READY>>]
    ELSE IF r1 = 204
    THEN [out |-> InfluxDBV1ClientImpl(s), probed |-> <<V2_READY, V1_PING>>]
    ELSE [out |-> CouldNotDetect,
          probed |-> <<V2_READY, V1_PING>>]

\* get_influx_client: the outcome, and the probes it issued. r2 and r1 are what
\* the readiness and the ping probe give if they are issued.
get_influx_client(s, r2, r1) ==
    IF s.influx_version = "2"
    THEN [out |-> InfluxDBV2ClientImpl(s), probed |-> <<>>]
    ELSE IF s.influx_version = "1"
    THEN [out |-> InfluxDBV1ClientImpl(s), probed |-> <<>>]
    ELSE IF s.influx_version = "auto"
    THEN IF r2 = 200
         THEN [out |-> InfluxDBV2ClientImpl(s), probed |-> <<V2_READY>>]
         ELSE IF r1 = 204
         THEN [out |-> InfluxDBV1ClientImpl(s), probed |-> <<V2_READY, V1_PING>>]
         ELSE [out |-> CouldNotDetect,
               probed |-> <<V2_READY, V1_PING>>]
    ELSE [out |-> CouldNotDetect,
          probed |-> <<>>]

\* The placeholder of client.py:178-184.
DummyClient == [version |-> "none"]

Clients == {[version |-> "1"], [version |-> "2"], DummyClient}

\* The methods the InfluxClient protocol declares, each with the body "...".
ProtocolMethods == {"ping", "list_buckets_or_dbs", "query", "write", "close"}

\* A call of DummyClient().<name>(...). DummyClient subclasses InfluxClient, so a
\* protocol method is found by the ordinary lookup and __getattr__ is not asked:
\* its body "..." returns None. Any other name goes to __getattr__, whose method
\* reads the variable e of the except clause, which Python unbinds when the
\* clause ends: NameError.
DummyCall(name) ==
    IF name \in ProtocolMethods
    THEN Return(None)
    ELSE Raise("NameError", <<"name 'e' is not defined">>)

(***************************************************************************)
(* utils.py: the time range parser.                                        *)
(*                                                                         *)
(* Time is counted in seconds since the epoch.  A datetime is its wall     *)
(* clock reading and its UTC offset: [wall, off, aware]; the instant it    *)
(* names is wall - off.                                                    *)
(***************************************************************************)
\* The first clock reading a call can get: 2026-01-01T00:00:00Z.
NowBase == 1767225600

ClockReadings == NowBase .. (NowBase + MaxClock)

Datetime(wall, off, aware) == [wall |-> wall, off |-> off, aware |-> aware]

\* datetime.now(timezone.utc) when the clock reads t.
NowUtc(t) == Datetime(t, 0, TRUE)

Instant(dt) == dt.wall - dt.off

\* A datetime parameter that was not given (relative_to = None).
NoDatetime == [none |-> TRUE]

\* str.lower(), on the tokens the inputs use.
Lower(tok) ==
    CASE tok = "NOW" -> "now"
      [] tok = "Now" -> "now"
      [] tok = "NOW()" -> "now()"
      [] OTHER -> tok

LowerText(text) == [i \in 1..Len(text) |-> Lower(text[i])]

Digits == {"0", "1", "2", "3", "4", "5", "6", "7", "8", "9"}

DigitValue(d) ==
    CASE d = "0" -> 0 [] d = "1" -> 1 [] d = "2" -> 2 [] d = "3" -> 3
      [] d = "4" -> 4 [] d = "5" -> 5 [] d = "6" -> 6 [] d = "7" -> 7
      [] d = "8" -> 8 [] d = "9" -> 9

RECURSIVE IntOf(_)
\* int(digits), digits a non-empty sequence of decimal digits.
IntOf(ds) ==
    IF Len(ds) = 1 THEN DigitValue(ds[1])
    ELSE 10 * IntOf(SubSeq(ds, 1, Len(ds) - 1)) + DigitValue(ds[Len(ds)])

\* re.match(r"^-(\d+)([mhd])$", text): "-", one digit or more, one unit letter.
RelativeMatch(text) ==
    /\ Len(text) >= 3
    /\ text[1] = "-"
    /\ \A i \in 2..(Len(text) - 1) : text[i] \in Digits
    /\ text[Len(text)] \in {"m", "h", "d"}

\* timedelta(minutes=value), (hours=value), (days=value), in seconds.
Timedelta(unit, value) ==
    CASE unit = "m" -> 60 * value
      [] unit = "h" -> 3600 * value
      [] unit = "d" -> 86400 * value
      [] OTHER -> 0

\* The date-and-time texts the inputs use, with their wall clock reading, and
\* the timezone designators, with their offset.
\* The wall clock readings window_stats writes with isoformat() and hands to
\* the parser again: a clock reading, or one hour before it.
IsoWalls == {t - d : t \in ClockReadings, d \in {0, 3600}}

\* isoformat() writes a wall clock reading as its count of seconds.
IsoTexts == {ToString(n) : n \in IsoWalls}

WallOf(tok) ==
    CASE tok = "2023-01-01T00:00:00" -> 1672531200
      [] tok = "2023-01-01T02:00:00" -> 1672538400
      [] tok = "2023-01-02T00:00:00" -> 1672617600
      [] OTHER -> CHOOSE n \in IsoWalls : ToString(n) = tok

DateTexts ==
    {"2023-01-01T00:00:00", "2023-01-01T02:00:00", "2023-01-02T00:00:00"} \cup IsoTexts

OffsetOf(tok) ==
    CASE tok = "Z" -> 0
      [] tok = "+00:00" -> 0
      [] tok = "+02:00" -> 7200
      [] tok = "-05:00" -> 0 - 18000

ZoneTexts == {"Z", "+00:00", "+02:00", "-05:00"}

\* The civil date [y, m, d] of the day that is z days after 1970-01-01, by
\* 400-year eras that begin on a 1 March: from the year y0 that begins in
\* March, the day doy of it and the month mp counted from March.
CivilDate(y0, doy, mp) ==
    [y |-> y0 + (IF mp < 10 THEN 0 ELSE 1),
     m |-> IF mp < 10 THEN mp + 3 ELSE mp - 9,
     d |-> doy - (153 * mp + 2) \div 5 + 1]

CivilOfYear(y0, doy) == CivilDate(y0, doy, (5 * doy + 2) \div 153)

CivilOfEra(era, doe, yoe) ==
    CivilOfYear(yoe + era * 400, doe - (365 * yoe + yoe \div 4 - yoe \div 100))

YearOfEra(doe) ==
    (doe - doe \div 1460 + doe \div 36524 - doe \div 146096) \div 365

CivilFromDays(z) ==
    CivilOfEra((z + 719468) \div 146097, (z + 719468) % 146097,
               YearOfEra((z + 719468) % 146097))

\* The number of days from 1970-01-01 to the day doy of the year yy >= 0 that
\* begins in March, and to the civil date y-m-d.
DaysOfEra(yy, doy) ==
    (yy \div 400) * 146097 + (yy % 400) * 365 + (yy % 400) \div 4
        - (yy % 400) \div 100 + doy - 719468

DaysFromCivil(y, m, d) ==
    DaysOfEra(IF m <= 2 THEN y - 1 ELSE y,
              (153 * (IF m > 2 THEN m - 3 ELSE m + 9) + 2) \div 5 + d - 1)

\* calendar.monthrange(y, m)[1].
DaysInMonth(y, m) ==
    IF m = 2
    THEN IF (y % 4 = 0 /\ y % 100 # 0) \/ y % 400 = 0 THEN 29 ELSE 28
    ELSE IF m \in {4, 6, 9, 11} THEN 30 ELSE 31

\* The parser's default: the day of the clock reading at 00:00:00, in days
\* since 1970-01-01 (the process runs in UTC).
Today(t) == t \div 86400

\* The naive datetime at 00:00:00 of the civil date y-m-d; a default day
\* past the end of the month falls back to the month's last day.
Naive(y, m, d) ==
    Datetime(DaysFromCivil(y, m, IF d > DaysInMonth(y, m) THEN DaysInMonth(y, m)
                                 ELSE d) * 86400, 0, FALSE)

\* parserinfo.hms: the seconds of an hour, minute or second label, in any
\* case; 0 for a token that is no such label.
HmsSeconds(tok) ==
    CASE tok \in {"h", "H"} -> 3600
      [] tok \in {"m", "M"} -> 60
      [] tok \in {"s", "S"} -> 1
      [] OTHER -> 0

\* parserinfo.weekday and parserinfo.month, for the full names in lower case
\* (Monday is 0, January is 1); 0 - 1 for any other word.
WeekdayOf(tok) ==
    CASE tok = "monday" -> 0 [] tok = "tuesday" -> 1 [] tok = "wednesday" -> 2
      [] tok = "thursday" -> 3 [] tok = "friday" -> 4 [] tok = "saturday" -> 5
      [] tok = "sunday" -> 6 [] OTHER -> 0 - 1

MonthOf(tok) ==
    CASE tok = "january" -> 1 [] tok = "february" -> 2 [] tok = "march" -> 3
      [] tok = "april" -> 4 [] tok = "may" -> 5 [] tok = "june" -> 6
      [] tok = "july" -> 7 [] tok = "august" -> 8 [] tok = "september" -> 9
      [] tok = "october" -> 10 [] tok = "november" -> 11 [] tok = "december" -> 12
      [] OTHER -> 0 - 1

\* parserinfo.convertyear of a year without century, in the year now.
ConvertYear(year, now) ==
    IF year + (now \div 100) * 100 >= now + 50 THEN year + (now \div 100) * 100 - 100
    ELSE IF year + (now \div 100) * 100 < now - 50 THEN year + (now \div 100) * 100 + 100
    ELSE year + (now \div 100) * 100

ParserError == Raise("ValueError", <<"Unknown string format">>)

\* A lone number (of fewer than six digits) given to the parser on the civil
\* date today: up to 31 it is the day of the current month, above it a year,
\* without century below 100; the other parts are today's.
ParseNumber(value, today) ==
    IF value <= 31
    THEN IF value >= 1 /\ value <= DaysInMonth(today.y, today.m)
         THEN Return(Naive(today.y, today.m, value))
         ELSE ParserError
    ELSE IF value < 100
    THEN Return(Naive(ConvertYear(value, today.y), today.m, today.d))
    ELSE IF value > 9999 THEN ParserError
    ELSE Return(Naive(value, today.m, today.d))

\* A number followed by an hour, minute or second label: that time of today,
\* or an error when the number is out of the range of the part.
ParseHms(value, label, t) ==
    IF value < (IF HmsSeconds(label) = 3600 THEN 24 ELSE 60)
    THEN Return(Datetime(Today(t) * 86400 + value * HmsSeconds(label), 0, FALSE))
    ELSE ParserError

\* A weekday name: the first such day from today on, at 00:00:00; a month
\* name: today's day in that month.
ParseWord(tok, t, today) ==
    IF WeekdayOf(tok) >= 0
    THEN Return(Datetime((Today(t) + ((WeekdayOf(tok) + 7 - ((Today(t) + 3) % 7)) % 7))
                            * 86400, 0, FALSE))
    ELSE IF MonthOf(tok) >= 1
    THEN Return(Naive(today.y, MonthOf(tok), today.d))
    ELSE ParserError

\* Whether the tokens are decimal digits, one at least.
IsNumber(toks) == toks # <<>> /\ \A i \in 1..Len(toks) : toks[i] \in Digits

\* What the parser makes of a text that is no date-and-time text, after a
\* leading "-": a lone number, a number with an hour, minute or second label,
\* a weekday or a month name are completed from today's date; a number
\* followed by another letter, any other word and a text with nothing in it
\* raise ParserError, a ValueError.
ParseLenient(rest, t) ==
    IF IsNumber(rest) THEN ParseNumber(IntOf(rest), CivilFromDays(Today(t)))
    ELSE IF Len(rest) >= 2 /\ IsNumber(SubSeq(rest, 1, Len(rest) - 1))
                           /\ HmsSeconds(rest[Len(rest)]) > 0
    THEN ParseHms(IntOf(SubSeq(rest, 1, Len(rest) - 1)), rest[Len(rest)], t)
    ELSE IF Len(rest) = 1 THEN ParseWord(rest[1], t, CivilFromDays(Today(t)))
    ELSE ParserError

\* dateutil.parser.parse, when the clock reads t. A date-and-time text, alone
\* (a naive datetime) or followed by a timezone designator (an aware one,
\* keeping that offset). The parser is lenient beyond that: a leading "-" is
\* skipped as a separator, and what follows is read by ParseLenient.
parse_iso(text, t) ==
    IF Len(text) = 1 /\ text[1] \in DateTexts
    THEN Return(Datetime(WallOf(text[1]), 0, FALSE))
    ELSE IF Len(text) = 2 /\ text[1] \in DateTexts /\ text[2] \in ZoneTexts
    THEN Return(Datetime(WallOf(text[1]), OffsetOf(text[2]), TRUE))
    ELSE ParseLenient(IF text # <<>> /\ text[1] = "-" THEN Tail(text) ELSE text, t)

InvalidTimeFormat(time_str) ==
    <<"Invalid time format '">> \o time_str
        \o <<"'. Must be ISO 8601 or relative (e.g., '-7d').">>

\* The outcome p of the date parser for time_str (utils.py:49-56): a naive
\* datetime is given UTC, an aware one is kept, and the parser's ValueError
\* becomes the invalid-time-format error.
AssumeUtc(p, time_str) ==
    IF ~p.ok THEN Raise("ValueError", InvalidTimeFormat(time_str))
    ELSE IF ~p.val.aware THEN Return(Datetime(p.val.wall, 0, TRUE))
    ELSE Return(p.val)

\* Mutant of _parse_time_string: a relative expression is always taken from now.
_parse_time_string_from_now(time_str, relative_to, t) ==
    LET now == NowUtc(t)
    IN IF LowerText(time_str) \in {<<"now">>, <<"now()">>}
       THEN Return(now)
       ELSE IF RelativeMatch(time_str)
       THEN LET value == IntOf(SubSeq(time_str, 2, Len(time_str) - 1))
                delta == Timedelta(time_str[Len(time_str)], value)
            IN Return(Datetime(now.wall - delta, now.off, now.aware))
       ELSE AssumeUtc(parse_iso(time_str, t), time_str)

\* _parse_time_string(time_str, relative_to), the clock reading t when it runs.
_parse_time_string(time_str, relative_to, t) ==
    LET now == NowUtc(t)
    IN IF LowerText(time_str) \in {<<"now">>, <<"now()">>}
       THEN Return(now)
       ELSE IF RelativeMatch(time_str)
       THEN LET value == IntOf(SubSeq(time_str, 2, Len(time_str) - 1))
                unit == time_str[Len(time_str)]
                delta == Timedelta(unit, value)
                base_time == IF relative_to # NoDatetime THEN relative_to ELSE now
            IN Return(Datetime(base_time.wall - delta, base_time.off, base_time.aware))
       ELSE AssumeUtc(parse_iso(time_str, t), time_str)

\* parse_time_range(start, stop): stop is parsed first, when the clock reads t1,
\* then start, relative to it, when the clock reads t2.
parse_time_range(start, stop, t1, t2) ==
    LET stop_r == _parse_time_string(IF Truthy(stop) THEN stop ELSE <<"now">>,
                                     NoDatetime, t1)
    IN IF ~stop_r.ok THEN stop_r
       ELSE LET start_r == _parse_time_string(start, stop_r.val, t2)
            IN IF ~start_r.ok THEN start_r
               ELSE Return([start |-> start_r.val, stop |-> stop_r.val])

RECURSIVE DigitRuns(_)
\* The runs of 1..n digits over the digits the inputs use.
DigitRuns(n) ==
    IF n = 0 THEN {}
    ELSE LET shorter == DigitRuns(n - 1)
         IN {<<d>> : d \in {"1", "5"}} \cup shorter
              \cup {r \o <<d>> : r \in shorter, d \in {"1", "5"}}

\* Relative expressions, units that are not supported among them.
RelativeExprs ==
    {<<"-">> \o r \o <<u>> :
        r \in DigitRuns(MaxDigits), u \in {"m", "h", "d", "y", "s", "H"}}

\* The time expressions a caller passes.
TimeExprs ==
    RelativeExprs \cup
    { <<"now">>, <<"NOW()">>,
      <<"2023-01-01T00:00:00", "Z">>, <<"2023-01-02T00:00:00">>,
      <<"2023-01-01T02:00:00", "+02:00">>,
      <<"yesterday">>, <<"today">>, <<"-", "d">>, <<>>,
      <<"monday">>, <<"may">>, <<"5">>, <<"1", "5">>, <<"3", "5">> }

(***************************************************************************)
(* queries.py: the timeseries query builders and the facade.               *)
(***************************************************************************)
\* str(x) of an Optional[str] inside an f-string.
Str(x) == IF x = None THEN <<"None">> ELSE x

\* A tag dictionary (its items in insertion order, keys unique), or None.
NoTags == [none |-> TRUE, items |-> <<>>]
TagDict(items) == [none |-> FALSE, items |-> items]

\* bool(tags): None and the empty dictionary are falsy.
TruthyTags(tags) == ~tags.none /\ tags.items # <<>>

\* The UTC offset as isoformat() writes it.
OffsetText(off) ==
    CASE off = 0 -> "+00:00"
      [] off = 7200 -> "+02:00"
      [] off = 0 - 18000 -> "-05:00"

\* datetime.isoformat(): the wall clock reading (here its count of seconds),
\* followed by the UTC offset when the datetime is aware.
isoformat(dt) ==
    IF dt.aware THEN <<ToString(dt.wall), OffsetText(dt.off)>>
    ELSE <<ToString(dt.wall)>>

\* _parse_target(target): (db, rp), split at the first "/"; rp is None without one.
_parse_target(target) ==
    IF \E i \in 1..Len(target) : target[i] = "/"
    THEN LET i == CHOOSE k \in 1..Len(target) :
                      target[k] = "/" /\ \A j \in 1..(k-1) : target[j] # "/"
         IN [db |-> SubSeq(target, 1, i-1), rp |-> SubSeq(target, i+1, Len(target))]
    ELSE [db |-> target, rp |-> None]

PIPE == "  |> "
NL == "\n"

\* Mutant of FluxTagStage: the stage is emitted whatever the filter text.
FluxTagStage_always(tag_filters) ==
    <<PIPE, "filter(fn: (r) => ">> \o tag_filters \o <<")", NL>>

\* The tag filter stage (queries.py:124-125): emitted when the filter text is
\* not empty.
FluxTagStage(tag_filters) ==
    IF tag_filters # <<>>
    THEN <<PIPE, "filter(fn: (r) => ">> \o tag_filters \o <<")", NL>>
    ELSE <<>>

\* Mutant of FluxFillPart: linear is treated like any policy other than none.
FluxFillPart_simple(fill) ==
    IF fill # <<"none">>
    THEN <<"fill(usePrevious: ", IF fill = <<"previous">> THEN "true" ELSE "false", ")">>
    ELSE <<>>

\* fill_part (queries.py:128-130): nothing for none, the simple fill stage for
\* any other policy, replaced by the interpolation stage for linear. The
\* interpolation text is no f-string: its {every} is written as it stands.
FluxFillPart(fill) ==
    IF fill = <<"linear">>
    THEN <<"interpolate.linear(every: ", "{every}", ")">>
    ELSE IF fill # <<"none">>
    THEN <<"fill(usePrevious: ", IF fill = <<"previous">> THEN "true" ELSE "false", ")">>
    ELSE <<>>

\* The text of query_timeseries_v2's flux_query (queries.py:117-137).
FluxQuery(bucket, measurement, field, start, stop, tags, aggregate, every, limit, fill) ==
    LET time_filter == <<"start: ">> \o isoformat(start) \o <<"Z", ", stop: ">>
                           \o isoformat(stop) \o <<"Z">>
        tag_filters ==
            IF TruthyTags(tags)
            THEN Join([i \in 1..Len(tags.items) |->
                          <<"r[\"">> \o tags.items[i][1] \o <<"\"] == \"">>
                              \o tags.items[i][2] \o <<"\"">>],
                      <<" and ">>)
            ELSE <<>>
        fill_part == FluxFillPart(fill)
        head == <<"from(bucket: \"">> \o bucket \o <<"\")", NL>>
                  \o <<PIPE, "range(">> \o time_filter \o <<")", NL>>
                  \o <<PIPE, "filter(fn: (r) => ", "r[\"_measurement\"] == \"">>
                  \o measurement \o <<"\"", ")", NL>>
                  \o <<PIPE, "filter(fn: (r) => ", "r[\"_field\"] == \"">>
                  \o field \o <<"\"", ")", NL>>
        tagged == FluxTagStage(tag_filters)
        windowed ==
            IF Truthy(aggregate) /\ Truthy(every)
            THEN <<PIPE, "aggregateWindow(every: ">> \o every \o <<", fn: ">>
                     \o aggregate \o <<", createEmpty: ",
                        IF fill # <<"none">> THEN "true" ELSE "false", ")", NL>>
                     \o (IF fill_part # <<>> THEN <<PIPE>> \o fill_part \o <<NL>>
                         ELSE <<>>)
            ELSE <<>>
    IN head \o tagged \o windowed
         \o <<PIPE, "limit(n: ", ToString(limit), ")", NL>>
         \o <<PIPE, "yield(name: \"results\")">>

\* Mutant of TargetMeasurement: the retention policy is used whenever it is
\* not None, the empty one too.
TargetMeasurement_not_none(db, rp, measurement) ==
    IF rp # None
    THEN <<"\"">> \o db \o <<"\".\"">> \o rp \o <<"\".\"">> \o measurement \o <<"\"">>
    ELSE <<"\"">> \o db \o <<"\"..\"">> \o measurement \o <<"\"">>

\* target_measurement (queries.py:165).
TargetMeasurement(db, rp, measurement) ==
    IF Truthy(rp)
    THEN <<"\"">> \o db \o <<"\".\"">> \o rp \o <<"\".\"">> \o measurement \o <<"\"">>
    ELSE <<"\"">> \o db \o <<"\"..\"">> \o measurement \o <<"\"">>

\* Mutant of FillClause: the policy is written whatever it is.
FillClause_any(fill) == <<"fill(">> \o Str(fill) \o <<")">>

\* fill_clause under "if aggregate and every" (queries.py:170): InfluxQL has no
\* linear fill, and the clause is left empty for it.
FillClause(fill) ==
    IF fill # <<"linear">> THEN <<"fill(">> \o Str(fill) \o <<")">> ELSE <<>>

\* The text of query_timeseries_v1's statement q (queries.py:162-184).
InfluxQL(db, rp, measurement, field, start, stop, tags, aggregate, every, limit, fill) ==
    LET time_filter == <<"time >= '">> \o isoformat(start) \o <<"Z", "' AND time <= '">>
                           \o isoformat(stop) \o <<"Z", "'">>
        tag_filters ==
            IF TruthyTags(tags)
            THEN Join([i \in 1..Len(tags.items) |->
                          <<"\"">> \o tags.items[i][1] \o <<"\" = '">>
                              \o tags.items[i][2] \o <<"'">>],
                      <<" AND ">>)
            ELSE <<>>
        target_measurement == TargetMeasurement(db, rp, measurement)
        both == Truthy(aggregate) /\ Truthy(every)
        select_clause == IF both THEN aggregate \o <<"(\"">> \o field \o <<"\")">>
                         ELSE <<"\"">> \o field \o <<"\"">>
        group_by_clause == IF both THEN <<"GROUP BY time(">> \o every \o <<")">>
                           ELSE <<>>
        fill_clause == IF both THEN FillClause(fill) ELSE <<>>
    IN <<"SELECT ">> \o select_clause \o <<" FROM ">> \o target_measurement
         \o <<" WHERE ">> \o time_filter
         \o (IF tag_filters # <<>> THEN <<" AND ">> \o tag_filters ELSE <<>>)
         \o (IF group_by_clause # <<>> THEN <<" ">> \o group_by_clause ELSE <<>>)
         \o (IF fill_clause # <<>> THEN <<" ">> \o fill_clause ELSE <<>>)
         \o <<" LIMIT ", ToString(limit)>>

(***************************************************************************)
(* The backend, as the client library reports it.                          *)
(***************************************************************************)
\* The i-th record the backend holds. Later records carry earlier times, so
\* that backend order and time order differ.
FluxRecord(i) == [time |-> NowUtc(1672531200 - 60 * i), value |-> 10 * i]

\* Dialect B results: tables of records, at most MaxRecords records in all.
FluxResults ==
    {<<>>, << <<>> >>}
    \cup {<< [i \in 1..n |-> FluxRecord(i)] >> : n \in 1..MaxRecords}
    \cup UNION {{<< [i \in 1..k |-> FluxRecord(i)],
                     [i \in 1..(n - k) |-> FluxRecord(k + i)] >> :
                      n \in (k + 1)..MaxRecords} : k \in 1..MaxRecords}

\* Dialect A results: the points of ResultSet.get_points(), each a dictionary
\* with the key time and one value column.
InfluxQLPoint(i, column) ==
    [time |-> <<ToString(1672531200 - 60 * i), "Z">>, column |-> column, value |-> 10 * i]

InfluxQLResults ==
    {[i \in 1..n |-> InfluxQLPoint(i, column)] :
        n \in 0..MaxRecords, column \in {<<"mean">>, <<"value">>}}

\* The exceptions a client's query can raise.
BackendErrors ==
    {Raise("ConnectionError", <<"Connection refused">>),
     Raise("ValueError", <<"malformed response">>),
     Raise("Exception", <<"backend error">>)}

\* What the backend can answer to a query of this client.
BackendOutcomes(client) ==
    IF client = DummyClient THEN {Return(<<>>)}
    ELSE BackendErrors \cup
         {Return(r) : r \in IF client.version = "2" THEN FluxResults ELSE InfluxQLResults}

\* Mutant of Flatten: the records of the first table only.
Flatten_first_table(tables) ==
    IF tables = <<>> THEN <<>> ELSE tables[1]

RECURSIVE Flatten(_)
\* [rec for table in tables for rec in table]
Flatten(tables) ==
    IF tables = <<>> THEN <<>> ELSE tables[1] \o Flatten(Tail(tables))

\* dict.get(key, default) on a point.
PointGet(p, key, default) == IF key = p.column THEN p.value ELSE default

NoValue == 0 - 1

QueryStats(series, start, stop, aggregate, every) ==
    [points_returned |-> Len(series),
     start_effective_iso |-> isoformat(start),
     stop_effective_iso |-> isoformat(stop),
     aggregate_function |-> aggregate,
     downsample_interval |-> every]

\* Mutant of query_timeseries_v2: a result without records is refused as the
\* last-point query refuses it.
query_timeseries_v2_no_data(client, bucket, measurement, field, start, stop, tags, aggregate, every, limit, fill, backend) ==
    LET flux_query == FluxQuery(bucket, measurement, field, start, stop, tags,
                                aggregate, every, limit, fill)
        records == Flatten(backend.val)
        series == [i \in 1..Len(records) |->
                      [time_iso |-> isoformat(records[i].time),
                       value |-> records[i].value]]
    IN [issued |-> <<flux_query>>,
        out |-> IF ~backend.ok THEN backend
                ELSE IF records = <<>>
                THEN Raise("ValueError", <<"No data found for the specified criteria.">>)
                ELSE Return([series |-> series,
                             stats |-> QueryStats(series, start, stop, aggregate, every)])]

\* query_timeseries_v2: the query is built and issued, the tables are flattened.
query_timeseries_v2(client, bucket, measurement, field, start, stop, tags, aggregate, every, limit, fill, backend) ==
    LET flux_query == FluxQuery(bucket, measurement, field, start, stop, tags,
                                aggregate, every, limit, fill)
        records == Flatten(backend.val)
        series == [i \in 1..Len(records) |->
                      [time_iso |-> isoformat(records[i].time),
                       value |-> records[i].value]]
    IN [issued |-> <<flux_query>>,
        out |-> IF ~backend.ok THEN backend
                ELSE Return([series |-> series,
                             stats |-> QueryStats(series, start, stop, aggregate, every)])]

\* query_timeseries_v1: the statement is built and issued, the points are read.
\* The placeholder's query takes the statement and returns None, and None has
\* no get_points. issued is what influx_client.query was called with.
query_timeseries_v1(client, db, rp, measurement, field, start, stop, tags, aggregate, every, limit, fill, backend) ==
    LET q == InfluxQL(db, rp, measurement, field, start, stop, tags,
                      aggregate, every, limit, fill)
        points == backend.val
        series == [i \in 1..Len(points) |->
                      [time_iso |-> points[i].time,
                       value |-> PointGet(points[i], aggregate,
                                          PointGet(points[i], field, NoValue))]]
    IN IF client = DummyClient
       THEN [issued |-> <<q>>,
             out |-> Raise("AttributeError",
                           <<"'NoneType' object has no attribute 'get_points'">>)]
       ELSE [issued |-> <<q>>,
             out |-> IF ~backend.ok THEN backend
                     ELSE Return([series |-> series,
                                  stats |-> QueryStats(series, start, stop, aggregate, every)])]

\* Mutant of get_timeseries_data: the builder is called with whatever range
\* the parser gave, and a range that did not resolve is reported after it.
get_timeseries_data_query_first(client, kw, t1, t2, backend) ==
    LET range == parse_time_range(kw.start, kw.stop, t1, t2)
        now == [start |-> NowUtc(t2), stop |-> NowUtc(t1)]
        used == IF range.ok THEN range.val ELSE now
        target == _parse_target(kw.target)
        g == IF client.version = "2"
             THEN query_timeseries_v2(client, target.db, kw.measurement, kw.field,
                                      used.start, used.stop, kw.tags,
                                      kw.aggregate, kw.every, kw.limit, kw.fill, backend)
             ELSE query_timeseries_v1(client, target.db, target.rp, kw.measurement,
                                      kw.field, used.start, used.stop, kw.tags,
                                      kw.aggregate, kw.every, kw.limit, kw.fill, backend)
    IN IF range.ok THEN g ELSE [issued |-> g.issued, out |-> range]

\* get_timeseries_data(**kwargs): the range is resolved, the target parsed, and
\* the builder of the client's version called.
get_timeseries_data(client, kw, t1, t2, backend) ==
    LET range == parse_time_range(kw.start, kw.stop, t1, t2)
        target == _parse_target(kw.target)
    IN IF ~range.ok THEN [issued |-> <<>>, out |-> range]
       ELSE IF client.version = "2"
       THEN query_timeseries_v2(client, target.db, kw.measurement, kw.field,
                                range.val.start, range.val.stop, kw.tags,
                                kw.aggregate, kw.every, kw.limit, kw.fill, backend)
       ELSE query_timeseries_v1(client, target.db, target.rp, kw.measurement, kw.field,
                                range.val.start, range.val.stop, kw.tags,
                                kw.aggregate, kw.every, kw.limit, kw.fill, backend)

\* The numbers a backend reports as field values.
FieldNumbers == 0..100

\* isinstance(v, int), for a value that is a text, None or one of FieldNumbers.
IsInt(v) == ToString(v) \in {ToString(n) : n \in FieldNumbers}

\* isinstance(v, str).
IsStr(v) == ~IsInt(v) /\ v # None

\* repr(v) of a text, None or a number.
Repr(v) ==
    IF IsInt(v) THEN <<ToString(v)>>
    ELSE IF v = None THEN <<"None">>
    ELSE <<"'">> \o v \o <<"'">>

\* type(v).__name__.
TypeName(v) == IF IsInt(v) THEN "int" ELSE IF v = None THEN "NoneType" ELSE "str"

\* The release of pydantic that the links of its error messages name.
PydanticRelease == "2.13"

\* One entry of a pydantic ValidationError: the location, what was expected
\* (string or list), and the input that is not of that type.
TypeError(loc, expected, input) ==
    <<NL>> \o loc
      \o <<NL, "  Input should be a valid ", expected, " [type=", expected, "_type",
           ", input_value=">> \o Repr(input)
      \o <<", input_type=", TypeName(input), "]", NL,
           "    For further information visit https://errors.pydantic.dev/",
           PydanticRelease, "/v/", expected, "_type">>

\* pydantic's ValidationError of a model for the entries (not empty) found.
ValidationError(model, entries) ==
    Raise("ValidationError",
          <<ToString(Len(entries)),
            IF Len(entries) = 1 THEN " validation error for "
            ELSE " validation errors for ", model>>
            \o Join(entries, <<>>))

\* issubclass(exc, ValueError): pydantic's ValidationError is a ValueError.
IsValueError(exc) == exc \in {"ValueError", "ValidationError"}

\* server.handle_query_error: what the wrapper makes of the wrapped call's outcome.
handle_query_error(out) ==
    IF out.ok THEN out
    ELSE IF out.exc = "ConnectionError"
    THEN Raise("ToolError", <<"Connection to InfluxDB failed: ">> \o out.msg)
    ELSE IF IsValueError(out.exc)
    THEN Raise("ToolError", <<"Invalid parameters or data: ">> \o out.msg)
    ELSE Raise("ToolError", <<"An unexpected internal error occurred: ">> \o out.msg)

\* The requests of the query_timeseries tool (schemas.QueryTimeseriesRequest).
Targets == { <<"iot">>, <<"iot", "/">>, <<"iot", "/", "autogen">> }

TagSets ==
    { NoTags, TagDict(<<>>),
      TagDict(<< <<<<"device">>, <<"abc">>>> >>),
      TagDict(<< <<<<"device">>, <<"abc">>>>, <<<<"site">>, <<"x1">>>> >>) }

Fills == { <<"none">>, <<"previous">>, <<"linear">>, None }

\* Requests without stop over every shape of the other fields, requests with
\* an absolute stop that carries an offset, and requests whose start or stop
\* does not parse.
QueryTimeseriesRequests ==
    [target : Targets,
     measurement : {<<"temp">>},
     field : {<<"value">>},
     start : {<<"-", "1", "h">>},
     stop : {None},
     tags : TagSets,
     aggregate : {None, <<"mean">>},
     every : {None, <<"5m">>},
     limit : {1000},
     fill : Fills]
    \cup
    [target : {<<"iot">>},
     measurement : {<<"temp">>},
     field : {<<"value">>},
     start : {<<"-", "1", "h">>},
     stop : {<<"2023-01-01T02:00:00", "+02:00">>},
     tags : {NoTags, TagDict(<< <<<<"device">>, <<"abc">>>> >>)},
     aggregate : {None, <<"mean">>},
     every : {None, <<"5m">>},
     limit : {1000},
     fill : {<<"none">>, <<"linear">>}]
    \cup
    [target : {<<"iot">>},
     measurement : {<<"temp">>},
     field : {<<"value">>},
     start : {<<"-", "1", "h">>, <<"yesterday">>, <<"-", "5", "y">>},
     stop : {<<"now()">>, <<"today">>},
     tags : {NoTags},
     aggregate : {None, <<"mean">>},
     every : {<<"5m">>},
     limit : {1000},
     fill : {<<"none">>}]

(***************************************************************************)
(* queries.get_last_point and the last_point tool.                         *)
(***************************************************************************)
\* The requests of the last_point tool (schemas.LastPointRequest): the field
\* is optional, and may be the empty text.
LastPointRequests ==
    [target : {<<"iot-db">>, <<"iot-db", "/", "autogen">>},
     measurement : {<<"device_status">>},
     field : {None, <<>>, <<"battery">>},
     tags : {NoTags, TagDict(<<>>),
             TagDict(<< <<<<"device_id">>, <<"abc-123">>>> >>),
             TagDict(<< <<<<"device_id">>, <<"abc-123">>>>, <<<<"site">>, <<"x1">>>> >>)}]

\* A record of a dialect-B last() result: time, value, field, and the columns
\* of record.values (a key that starts with an underscore has "_" as its
\* first token).
LastRecord(i) ==
    [time |-> NowUtc(1672574400 - 60 * i),
     value |-> <<ToString(98 + i)>>,
     field |-> IF i = 1 THEN <<"battery">> ELSE <<"level">>,
     values |-> << <<<<"result">>, <<"_result">>>>, <<<<"table">>, <<"0">>>>,
                   <<<<"_", "measurement">>, <<"device_status">>>>,
                   <<<<"device_id">>, <<"abc-123">>>> >>]

\* Dialect-B results of a last-point query: no table, a table without records,
\* one table per field, and a first table without records before one with.
LastTables ==
    { <<>>, << <<>> >>, << <<LastRecord(1)>> >>,
      << <<LastRecord(1)>>, <<LastRecord(2)>> >>,
      << <<>>, <<LastRecord(1)>> >> }

\* A point of a dialect-A result: the items of its dictionary, time first. A
\* field value is a number or a text, a tag value a text; the third point is
\* of a measurement with two numeric fields.
LastPoint(i) ==
    IF i = 1
    THEN << <<<<"time">>, <<"2023-01-01T12:00:00Z">>>>, <<<<"battery">>, 99>>,
            <<<<"device_id">>, <<"abc-123">>>> >>
    ELSE IF i = 2
    THEN << <<<<"time">>, <<"2023-01-01T11:00:00Z">>>>, <<<<"level">>, <<"5">>>> >>
    ELSE << <<<<"time">>, <<"2023-01-01T12:00:00Z">>>>, <<<<"battery">>, 99>>,
            <<<<"level">>, 5>>, <<<<"device_id">>, <<"abc-123">>>> >>

\* Dialect-A results of a last-point query: the points of get_points().
LastPoints ==
    { <<>>, <<LastPoint(1)>>, <<LastPoint(2)>>, <<LastPoint(3)>>,
      <<LastPoint(1), LastPoint(2)>> }

\* What the backend can answer to a last-point query of this client.
LastOutcomes(client) ==
    IF client = DummyClient THEN {Return(<<>>)}
    ELSE BackendErrors \cup
         {Return(r) : r \in IF client.version = "2" THEN LastTables ELSE LastPoints}

\* Whether the dictionary (a sequence of items) has the key.
HasKey(items, key) == \E i \in 1..Len(items) : items[i][1] = key

\* dict[key], for a key the dictionary has.
Lookup(items, key) ==
    items[CHOOSE i \in 1..Len(items) : items[i][1] = key][2]

\* Mutant of NoDataFound: an empty response stands for the missing point.
NoDataFound_empty_success ==
    Return([time_iso |-> <<>>, value |-> None, field |-> None, tags |-> <<>>])

\* raise ValueError("No data found for the specified criteria.")
\* (queries.py:252, :273).
NoDataFound == Raise("ValueError", <<"No data found for the specified criteria.">>)

\* The text of get_last_point's dialect-B query (queries.py:240-249).
LastPointFlux(bucket, measurement, field, tags) ==
    LET tag_filters ==
            IF TruthyTags(tags)
            THEN Join([i \in 1..Len(tags.items) |->
                          <<"r[\"">> \o tags.items[i][1] \o <<"\"] == \"">>
                              \o tags.items[i][2] \o <<"\"">>],
                      <<" and ">>)
            ELSE <<>>
        field_filter ==
            IF Truthy(field)
            THEN <<"|> filter(fn: (r) => ", "r[\"_field\"] == \"">> \o field \o <<"\"", ")">>
            ELSE <<>>
        indent == "          "
    IN <<NL, "        ", "from(bucket: \"">> \o bucket \o <<"\")", NL>>
         \o <<indent, "|> range(start: -365d) // Look back up to a year", NL>>
         \o <<indent, "|> filter(fn: (r) => ", "r[\"_measurement\"] == \"">>
         \o measurement \o <<"\"", ")", NL>>
         \o <<indent>> \o field_filter \o <<NL>>
         \o <<indent>>
         \o (IF tag_filters # <<>>
             THEN <<"|> filter(fn: (r) => ">> \o tag_filters \o <<")">> ELSE <<>>)
         \o <<NL, indent, "|> last()", NL, "        ">>

\* Mutant of LastPointQL: the WHERE keyword is written without tags too.
LastPointQL_always_where(measurement, field, tags) ==
    LET tag_filters ==
            IF TruthyTags(tags)
            THEN Join([i \in 1..Len(tags.items) |->
                          <<"\"">> \o tags.items[i][1] \o <<"\" = '">>
                              \o tags.items[i][2] \o <<"'">>],
                      <<" AND ">>)
            ELSE <<>>
        select_clause == IF Truthy(field) THEN <<"\"">> \o field \o <<"\"">> ELSE <<"*">>
    IN <<"SELECT ">> \o select_clause \o <<" FROM \"">> \o measurement \o <<"\"">>
         \o <<" WHERE ">> \o tag_filters
         \o <<" ORDER BY time DESC LIMIT 1">>

\* The text of get_last_point's dialect-A statement (queries.py:263-268).
LastPointQL(measurement, field, tags) ==
    LET tag_filters ==
            IF TruthyTags(tags)
            THEN Join([i \in 1..Len(tags.items) |->
                          <<"\"">> \o tags.items[i][1] \o <<"\" = '">>
                              \o tags.items[i][2] \o <<"'">>],
                      <<" AND ">>)
            ELSE <<>>
        select_clause == IF Truthy(field) THEN <<"\"">> \o field \o <<"\"">> ELSE <<"*">>
    IN <<"SELECT ">> \o select_clause \o <<" FROM \"">> \o measurement \o <<"\"">>
         \o (IF tag_filters # <<>> THEN <<" WHERE ">> \o tag_filters ELSE <<>>)
         \o <<" ORDER BY time DESC LIMIT 1">>

\* schemas.LastPointResponse(time_iso, value, field, tags): value is Any;
\* field is a str and tags a Dict[str, str], and a field or a tag value that
\* is no str fails the validation (time_iso is a str in both dialects).
LastPointResponse(time_iso, value, field, tags) ==
    LET NotStr(item) == ~IsStr(item[2])
        bad == SelectSeq(tags, NotStr)
        entries ==
            (IF IsStr(field) THEN <<>>
             ELSE << TypeError(<<"field">>, "string", field) >>)
            \o [i \in 1..Len(bad) |->
                   TypeError(<<"tags.">> \o bad[i][1], "string", bad[i][2])]
    IN IF entries = <<>>
       THEN Return([time_iso |-> time_iso, value |-> value,
                    field |-> field, tags |-> tags])
       ELSE ValidationError("LastPointResponse", entries)

\* get_last_point(**kwargs) (queries.py:230-283). Dialect B reads the first
\* record of the first table; dialect A (the placeholder too, whose query
\* returns None) reads the first point. issued is what influx_client.query was
\* called with.
get_last_point(client, kw, backend) ==
    LET target == _parse_target(kw.target)
        tables == backend.val
        record == tables[1][1]
        KeepColumn(item) ==
            item[1][1] # "_" /\ item[1] # <<"result">> /\ item[1] # <<"table">>
        point == backend.val[1]
        value_field ==
            IF Truthy(kw.field) THEN kw.field
            ELSE IF \E i \in 1..Len(point) : point[i][1] # <<"time">>
            THEN point[CHOOSE i \in 1..Len(point) :
                          /\ point[i][1] # <<"time">>
                          /\ \A j \in 1..(i - 1) : point[j][1] = <<"time">>][1]
            ELSE None
        NotValue(item) == item[1] # <<"time">> /\ item[1] # value_field
    IN IF client.version = "2"
       THEN [issued |-> <<LastPointFlux(target.db, kw.measurement, kw.field, kw.tags)>>,
             out |-> IF ~backend.ok THEN backend
                     ELSE IF tables = <<>> \/ tables[1] = <<>> THEN NoDataFound
                     ELSE LastPointResponse(isoformat(record.time), record.value,
                                            record.field,
                                            SelectSeq(record.values, KeepColumn))]
       ELSE [issued |-> <<LastPointQL(kw.measurement, kw.field, kw.tags)>>,
             out |-> IF client = DummyClient
                     THEN Raise("AttributeError",
                                <<"'NoneType' object has no attribute 'get_points'">>)
                     ELSE IF ~backend.ok THEN backend
                     ELSE IF backend.val = <<>> \/ point = <<>> THEN NoDataFound
                     ELSE IF ~HasKey(point, value_field)
                     THEN Raise("KeyError", Repr(value_field))
                     ELSE LastPointResponse(Lookup(point, <<"time">>),
                                            Lookup(point, value_field), value_field,
                                            SelectSeq(point, NotValue))]

(***************************************************************************)
(* The container listing: client.list_buckets_or_dbs and the tool.         *)
(***************************************************************************)
\* A retention policy as get_list_retention_policies reports it.
RetentionPolicy(j) ==
    [name |-> <<"rp", ToString(j)>>, duration |-> <<"168h0m0s">>, replicaN |-> 1]

\* A database of get_list_database with the n retention policies the backend
\* reports for it.
Database(name, n) == [name |-> name, rps |-> [j \in 1..n |-> RetentionPolicy(j)]]

\* What a dialect-A backend holds: no database, one, or two.
DatabaseLists ==
    {<<>>}
    \cup {<<Database(<<"iot">>, n)>> : n \in 0..MaxPolicies}
    \cup {<<Database(<<"_internal">>, m), Database(<<"iot">>, n)>> :
              m \in 0..MaxPolicies, n \in 0..MaxPolicies}

\* What a dialect-B backend holds: the names of find_buckets().buckets.
BucketLists == {<<>>, << <<"iot">> >>, << <<"_monitoring">>, <<"iot">> >>}

BucketInfo(name, type, retention_policy) ==
    [name |-> name, type |-> type, retention_policy |-> retention_policy]

\* Mutant of V1Entries: a database without retention policy is left out.
V1Entries_policies_only(db) ==
    [j \in 1..Len(db.rps) |->
        BucketInfo(db.name \o <<"/">> \o db.rps[j].name, "db",
                   db.rps[j].duration \o <<"/", ToString(db.rps[j].replicaN)>>)]

\* The entries of one database (client.py:70-75): one per retention policy,
\* or the database alone when it has none.
V1Entries(db) ==
    IF db.rps # <<>>
    THEN [j \in 1..Len(db.rps) |->
             BucketInfo(db.name \o <<"/">> \o db.rps[j].name, "db",
                        db.rps[j].duration \o <<"/", ToString(db.rps[j].replicaN)>>)]
    ELSE <<BucketInfo(db.name, "db", None)>>

RECURSIVE V1Listing(_)
\* InfluxDBV1ClientImpl.list_buckets_or_dbs: the entries of the databases, in
\* the order of get_list_database.
V1Listing(dbs) ==
    IF dbs = <<>> THEN <<>> ELSE V1Entries(dbs[1]) \o V1Listing(Tail(dbs))

\* InfluxDBV2ClientImpl.list_buckets_or_dbs.
V2Listing(buckets) ==
    [i \in 1..Len(buckets) |-> BucketInfo(buckets[i], "bucket", None)]

\* What the backend can answer to the listing calls of this client.
ListingOutcomes(client) ==
    IF client = DummyClient THEN {Return(<<>>)}
    ELSE BackendErrors \cup
         {Return(r) : r \in IF client.version = "2" THEN BucketLists ELSE DatabaseLists}

\* queries.list_buckets_or_dbs and the response of the tool (server.py:54-55).
\* The placeholder's method returns None, which ListBucketsResponse does not
\* validate as a list.
list_buckets_or_dbs(client, backend) ==
    IF client = DummyClient
    THEN ValidationError("ListBucketsResponse",
                         << TypeError(<<"results">>, "list", None) >>)
    ELSE IF ~backend.ok THEN backend
    ELSE IF client.version = "2" THEN Return([results |-> V2Listing(backend.val)])
    ELSE Return([results |-> V1Listing(backend.val)])

(***************************************************************************)
(* queries.list_tags and the list_tags tool.                               *)
(***************************************************************************)
\* The number of values list_tags keeps for one key (values[:100]).
TagValueLimit == 100

TagKey(i) == CASE i = 1 -> <<"device_id">> [] i = 2 -> <<"site">> [] OTHER -> <<"host", ToString(i)>>

TagValue(i) == <<"v", ToString(i)>>

\* How many values the backend holds for a key.
ValueCounts == {0, 1, TagValueLimit, TagValueLimit + MaxExcess}

\* The answer to the tag-key query: dialect B gives tables of rows, dialect A
\* points with the column tagKey.
KeyAnswers(client) ==
    IF client.version = "2"
    THEN {<<>>} \cup {<< [i \in 1..n |-> TagKey(i)] >> : n \in 1..MaxKeys}
         \cup {<< [i \in 1..(n - 1) |-> TagKey(i)], <<TagKey(n)>> >> : n \in 2..MaxKeys}
    ELSE {[i \in 1..n |-> [tagKey |-> TagKey(i)]] : n \in 0..MaxKeys}

\* The answer to one tag-value query, holding n values.
ValueAnswer(client, key, n) ==
    IF client.version = "2"
    THEN IF n = 0 THEN <<>> ELSE << [i \in 1..n |-> TagValue(i)] >>
    ELSE [i \in 1..n |-> [key |-> key, value |-> TagValue(i)]]

\* The outcomes of the tag-value query for the k-th key.
ValueOutcomes(client, k) ==
    {Raise("ConnectionError", <<"Connection refused">>)}
    \cup {Return(ValueAnswer(client, TagKey(k), n)) : n \in ValueCounts}

\* The key column of the answer to the tag-key query (queries.py:80, :99).
KeysOf(client, answer) ==
    IF client.version = "2" THEN Flatten(answer)
    ELSE [i \in 1..Len(answer) |-> answer[i].tagKey]

\* The value column of the answer to a tag-value query (queries.py:93, :105).
ValuesOf(client, answer) ==
    IF client.version = "2" THEN Flatten(answer)
    ELSE [i \in 1..Len(answer) |-> answer[i].value]

\* What the backend answers to the queries of one list_tags call: the outcome
\* of the tag-key query, and the outcomes of the tag-value queries in the
\* order they are asked.
TagBackends(client) ==
    IF client = DummyClient THEN {[keys |-> Return(<<>>), values |-> <<>>]}
    ELSE {[keys |-> e, values |-> <<>>] : e \in BackendErrors}
         \cup UNION {[keys : {Return(a)},
                      values : {f \in [1..Len(KeysOf(client, a)) ->
                                         UNION {ValueOutcomes(client, k) : k \in 1..MaxKeys}] :
                                   \A k \in DOMAIN f : f[k] \in ValueOutcomes(client, k)}] :
                        a \in KeyAnswers(client)}

TagInfo(key, values) == [key |-> key, values |-> values]

\* Mutant of Truncate: every value is kept.
Truncate_none(values) == values

\* values[:100]
Truncate(values) ==
    SubSeq(values, 1, IF Len(values) < TagValueLimit THEN Len(values) ELSE TagValueLimit)

\* The tag-key query of list_tags (queries.py:71-78, :97).
TagKeysQuery(client, bucket, measurement) ==
    IF client.version = "2"
    THEN <<NL, "        import \"influxdata/influxdb/schema\"", NL,
           "        schema.measurementTagKeys(", NL, "            bucket: \"">>
           \o bucket \o <<"\",", NL, "            measurement: \"">>
           \o measurement \o <<"\",", NL, "            start: -30d", NL,
                               "        )", NL, "        ">>
    ELSE <<"SHOW TAG KEYS FROM \"">> \o measurement \o <<"\"">>

\* The tag-value query of list_tags for one key (queries.py:83-91, :103).
TagValuesQuery(client, bucket, measurement, key) ==
    IF client.version = "2"
    THEN <<NL, "            import \"influxdata/influxdb/schema\"", NL,
           "            schema.measurementTagValues(", NL, "                bucket: \"">>
           \o bucket \o <<"\",", NL, "                measurement: \"">>
           \o measurement \o <<"\",", NL, "                tag: \"">>
           \o key \o <<"\",", NL, "                start: -30d", NL,
                       "            )", NL, "            ">>
    ELSE <<"SHOW TAG VALUES FROM \"">> \o measurement \o <<"\" WITH KEY = \"">>
           \o key \o <<"\"">>

RECURSIVE TagLoop(_, _, _, _, _)
\* The loop over the keys (queries.py:82-94, :101-106): one tag-value query
\* per key; an exception of a query ends the loop and the call.
TagLoop(client, bucket, measurement, keys, answers) ==
    IF keys = <<>> THEN [issued |-> <<>>, out |-> Return(<<>>)]
    ELSE LET values_query == TagValuesQuery(client, bucket, measurement, keys[1])
             rest == TagLoop(client, bucket, measurement, Tail(keys), Tail(answers))
         IN IF ~answers[1].ok
            THEN [issued |-> <<values_query>>, out |-> answers[1]]
            ELSE [issued |-> <<values_query>> \o rest.issued,
                  out |-> IF ~rest.out.ok THEN rest.out
                          ELSE Return(<<TagInfo(keys[1],
                                                Truncate(ValuesOf(client, answers[1].val)))>>
                                          \o rest.out.val)]

\* list_tags(target, measurement) (queries.py:65-107). The placeholder takes
\* the dialect-A branch, and its query returns None.
list_tags(client, target, measurement, backend) ==
    LET bucket == _parse_target(target).db
        query == TagKeysQuery(client, bucket, measurement)
        loop == TagLoop(client, bucket, measurement,
                        KeysOf(client, backend.keys.val), backend.values)
    IN IF client = DummyClient
       THEN [issued |-> <<query>>,
             out |-> Raise("AttributeError",
                           <<"'NoneType' object has no attribute 'get_points'">>)]
       ELSE IF ~backend.keys.ok THEN [issued |-> <<query>>, out |-> backend.keys]
       ELSE [issued |-> <<query>> \o loop.issued,
             out |-> IF loop.out.ok THEN Return([tags |-> loop.out.val]) ELSE loop.out]

(***************************************************************************)
(* config.Settings.__repr__ and utils.mask_sensitive_data.                 *)
(***************************************************************************)
\* The values of a dumped model: a str, None, an int, a SecretStr holding a
\* plaintext, or a nested dictionary (a sequence of <<key, value>> items).
StrValue(text) == [kind |-> "str", v |-> text]
NoneValue == [kind |-> "none", v |-> <<>>]
IntValue(text) == [kind |-> "int", v |-> text]
SecretStr(plain) == [kind |-> "secret", v |-> plain]

\* The plaintexts a token or a password can have.
Plaintexts == { <<"a-very-secret-token">>, <<"hunter2">> }

\* An Optional[SecretStr] field: unset (None, the default) or a secret.
SecretInputs == {NoneValue} \cup {SecretStr(p) : p \in Plaintexts}

\* Settings.model_dump(): the fields in declaration order, under their field
\* names; the fields the model does not follow keep their defaults.
model_dump(s, token, password) ==
    << <<"mcp_log_level", StrValue(<<"INFO">>)>>,
       <<"influx_version", StrValue(<<s.influx_version>>)>>,
       <<"influx_url", StrValue(s.influx_url)>>,
       <<"influx_request_timeout_sec", IntValue(<<"30">>)>>,
       <<"influx_org", NoneValue>>,
       <<"influx_token", token>>,
       <<"influx_default_bucket", NoneValue>>,
       <<"influx_username", NoneValue>>,
       <<"influx_password", password>>,
       <<"influx_default_db", NoneValue>>,
       <<"influx_default_rp", NoneValue>> >>

sensitive_keys == {"token", "password"}

\* Mutant of Sensitive: only the name of the field decides.
Sensitive_by_name(key, value) == key \in sensitive_keys

\* The test of mask_sensitive_data (utils.py:67).
Sensitive(key, value) == value.kind = "secret" \/ key \in sensitive_keys

RECURSIVE mask_sensitive_data(_)
\* mask_sensitive_data(data) (utils.py:59-73): a sensitive value becomes the
\* str "***", a nested dictionary is masked in turn, any other value stays.
mask_sensitive_data(data) ==
    [i \in 1..Len(data) |->
        LET key == data[i][1]
            value == data[i][2]
        IN IF Sensitive(key, value) THEN <<key, StrValue(<<"***">>)>>
           ELSE IF value.kind = "dict"
           THEN <<key, [kind |-> "dict", v |-> mask_sensitive_data(value.v)]>>
           ELSE <<key, value>>]

RECURSIVE ReprDict(_)
\* repr() of a dictionary; a SecretStr writes itself as SecretStr('**********').
ReprDict(data) ==
    LET ReprValue(value) ==
            CASE value.kind = "str" -> <<"'">> \o value.v \o <<"'">>
              [] value.kind = "none" -> <<"None">>
              [] value.kind = "int" -> value.v
              [] value.kind = "secret" -> <<"SecretStr('", "**********", "')">>
              [] value.kind = "dict" -> ReprDict(value.v)
    IN <<"{">> \o Join([i \in 1..Len(data) |->
                          <<"'", data[i][1], "': ">> \o ReprValue(data[i][2])],
                      <<", ">>) \o <<"}">>

\* Settings.__repr__ (config.py:42-46).
SettingsRepr(s, token, password) ==
    <<"Settings(">> \o ReprDict(mask_sensitive_data(model_dump(s, token, password)))
        \o <<")">>

(***************************************************************************)
(* The window_stats tool (server.py:93-127).                               *)
(***************************************************************************)
\* The requests of the window_stats tool (schemas.WindowStatsRequest).
WindowStatsRequests ==
    [target : {<<"iot">>},
     measurement : {<<"temp">>},
     field : {<<"value">>},
     window : {<<"-", "1", "h">>, <<"-", "5", "y">>},
     tags : {NoTags}]

\* What the backend can answer to one sub-query of window_stats over a window
\* that holds data.
WindowOutcomes(client) ==
    {Raise("ConnectionError", <<"Connection refused">>),
     Raise("ValueError", <<"malformed response">>),
     Return(IF client.version = "2" THEN << <<FluxRecord(1)>> >>
            ELSE <<InfluxQLPoint(1, <<"value">>)>>)}

\* The backend's answers to the sub-queries of one window_stats call, in the
\* order they are asked: each query fails or gives the aggregate's record, or
\* the window holds no data and every query gives an empty result.
WindowAnswers(client, n) ==
    IF client = DummyClient THEN {[k \in 1..n |-> Return(<<>>)]}
    ELSE [1..n -> WindowOutcomes(client)] \cup {[k \in 1..n |-> Return(<<>>)]}

\* The aggregates of the response, in the order their queries are issued:
\* count first (server.py:117), then mean, min, max and last (:120-123).
WindowAggregates == << <<"count">>, <<"mean">>, <<"min">>, <<"max">>, <<"last">> >>

\* request.window.replace('-', '')
RemoveDashes(text) == SelectSeq(text, LAMBDA tok : tok # "-")

\* get_timeseries_data(**base_params, aggregate=func, every=...): start and
\* stop are the isoformat() texts of the range; limit and fill take the
\* defaults of get_timeseries_data.
SubQuery(client, request, range, func, t, answer) ==
    get_timeseries_data(client,
        [target |-> request.target, measurement |-> request.measurement,
         field |-> request.field,
         start |-> isoformat(range.start), stop |-> isoformat(range.stop),
         tags |-> request.tags, aggregate |-> func,
         every |-> RemoveDashes(request.window), limit |-> 1000, fill |-> <<"none">>],
        t, t, answer)

\* res.series[0].value if res.series else <default>
FirstValue(res, default) ==
    IF res.val.series # <<>> THEN res.val.series[1].value ELSE default

\* get_agg(func) (server.py:110-115), on the outcome of its sub-query: a
\* ValueError or an IndexError is caught and None returned in its place.
get_agg(res) ==
    IF res.ok THEN Return(FirstValue(res, NoValue))
    ELSE IF IsValueError(res.exc) \/ res.exc = "IndexError" THEN Return(NoValue)
    ELSE res

\* One argument of the response (server.py:120-123): get_agg on the outcome g
\* of its sub-query, before the arguments that follow it (rest); an exception
\* that get_agg lets through ends the evaluation.
AggStep(g, rest) ==
    LET a == get_agg(g.out)
    IN IF ~a.ok THEN [issued |-> g.issued, out |-> a]
       ELSE [issued |-> g.issued \o rest.issued,
             out |-> IF rest.out.ok THEN Return(<<a.val>> \o rest.out.val)
                     ELSE rest.out]

RECURSIVE AggLoop(_, _, _, _, _, _)
\* The get_agg calls of the response's arguments, in order.
AggLoop(client, request, range, funcs, t, answers) ==
    IF funcs = <<>> THEN [issued |-> <<>>, out |-> Return(<<>>)]
    ELSE AggStep(SubQuery(client, request, range, funcs[1], t, answers[1]),
                 AggLoop(client, request, range, Tail(funcs), t, Tail(answers)))

\* The response of window_stats (server.py:117-127) for the resolved range,
\* from the outcome of the count query and of the get_agg calls after it.
WindowStatsResponse(range, count_res, aggs) ==
    IF ~count_res.out.ok
    THEN [issued |-> count_res.issued, out |-> count_res.out]
    ELSE [issued |-> count_res.issued \o aggs.issued,
          out |-> IF ~aggs.out.ok THEN aggs.out
                  ELSE Return([mean |-> aggs.out.val[1], min |-> aggs.out.val[2],
                               max |-> aggs.out.val[3], last |-> aggs.out.val[4],
                               count |-> FirstValue(count_res.out, 0),
                               start_iso |-> isoformat(range.start),
                               stop_iso |-> isoformat(range.stop)])]

\* The sub-queries of window_stats over the outcome of parse_time_range: the
\* count query is issued, then the four aggregates.
WindowQueries(client, request, range, t, answers) ==
    IF ~range.ok THEN [issued |-> <<>>, out |-> range]
    ELSE WindowStatsResponse(range.val,
             SubQuery(client, request, range.val, WindowAggregates[1], t, answers[1]),
             AggLoop(client, request, range.val, Tail(WindowAggregates), t,
                     Tail(answers)))

\* window_stats(request): the window is resolved against "now", and the
\* sub-queries run over the resolved range.
window_stats(client, request, t1, t2, answers) ==
    WindowQueries(client, request,
                  parse_time_range(request.window, <<"now">>, t1, t2), t2, answers)

\* The stop expressions a caller passes, None (no stop given) among them.
StopExprs ==
    { None, <<>>, <<"now">>, <<"Now">>, <<"-", "1", "h">>, <<"-", "1", "5", "m">>,
      <<"2023-01-01T00:00:00", "Z">>, <<"2023-01-02T00:00:00">>,
      <<"2023-01-01T02:00:00", "+02:00">>, <<"2023-01-01T00:00:00", "-05:00">>,
      <<"-", "5", "y">>, <<"today">>, <<"-", "5", "s">>, <<"1", "5">> }

NoCall == [op |-> "none"]

Init ==
    /\ phase = "boot"
    /\ settings \in SettingsSet
    /\ influx_client = [version |-> "unset"]
    /\ init_error = ""
    /\ probes = <<>>
    /\ pc = "idle"
    /\ call = NoCall

\* The import of client.py (lines 172-184): the client is selected, or the
\* placeholder is substituted for any exception of the selection.
ImportClient ==
    /\ phase = "boot"
    /\ \E r2 \in ProbeOutcomes, r1 \in ProbeOutcomes :
         LET g == get_influx_client(settings, r2, r1)
         IN /\ probes' = probes \o g.probed
            /\ influx_client' = IF g.out.ok THEN g.out.val ELSE DummyClient
            /\ init_error' = IF g.out.ok THEN "" ELSE g.out.exc
            /\ call' = [op |-> "get_influx_client", r2 |-> r2, r1 |-> r1, out |-> g.out]
    /\ phase' = "serving"
    /\ pc' = "returned"
    /\ UNCHANGED settings

\* A call of one of the client's methods on the placeholder (server.main's dry
\* run calls ping and list_buckets_or_dbs; the facade calls query and write).
PlaceholderCall ==
    /\ phase = "serving" /\ pc = "idle"
    /\ influx_client = DummyClient
    /\ \E name \in ProtocolMethods \cup {"buckets_api"} :
         call' = [op |-> "client_call", name |-> name, out |-> DummyCall(name)]
    /\ pc' = "returned"
    /\ UNCHANGED <<phase, settings, influx_client, init_error, probes>>

\* A call of utils.parse_time_range(start, stop). The clock is read once for
\* stop and once more for start, and does not run backwards in between.
ParseTimeRange ==
    /\ phase = "serving" /\ pc = "idle"
    /\ \E start \in TimeExprs, stop \in StopExprs,
          t1 \in ClockReadings, t2 \in ClockReadings :
         /\ t1 <= t2
         /\ call' = [op |-> "parse_time_range", start |-> start, stop |-> stop,
                     t1 |-> t1, t2 |-> t2,
                     out |-> parse_time_range(start, stop, t1, t2)]
    /\ pc' = "returned"
    /\ UNCHANGED <<phase, settings, influx_client, init_error, probes>>

\* The query_timeseries tool (server.py:84-91): get_timeseries_data under the
\* error wrapper.
QueryTimeseries ==
    /\ phase = "serving" /\ pc = "idle"
    /\ \E kw \in QueryTimeseriesRequests, t1 \in ClockReadings, t2 \in ClockReadings,
          backend \in BackendOutcomes(influx_client) :
         /\ t1 <= t2
         /\ LET g == get_timeseries_data(influx_client, kw, t1, t2, backend)
            IN call' = [op |-> "query_timeseries", kw |-> kw, t1 |-> t1, t2 |-> t2,
                        backend |-> backend, issued |-> g.issued, raw |-> g.out,
                        out |-> handle_query_error(g.out)]
    /\ pc' = "returned"
    /\ UNCHANGED <<phase, settings, influx_client, init_error, probes>>

\* The last_point tool (server.py:78-82): get_last_point under the error
\* wrapper.
LastPointTool ==
    /\ phase = "serving" /\ pc = "idle"
    /\ \E kw \in LastPointRequests, backend \in LastOutcomes(influx_client) :
         LET g == get_last_point(influx_client, kw, backend)
         IN call' = [op |-> "last_point", kw |-> kw, backend |-> backend,
                     issued |-> g.issued, raw |-> g.out,
                     out |-> handle_query_error(g.out)]
    /\ pc' = "returned"
    /\ UNCHANGED <<phase, settings, influx_client, init_error, probes>>

\* The list_buckets_or_dbs tool (server.py:47-55).
ListBuckets ==
    /\ phase = "serving" /\ pc = "idle"
    /\ \E backend \in ListingOutcomes(influx_client) :
         LET r == list_buckets_or_dbs(influx_client, backend)
         IN call' = [op |-> "list_buckets_or_dbs", backend |-> backend,
                     raw |-> r, out |-> handle_query_error(r)]
    /\ pc' = "returned"
    /\ UNCHANGED <<phase, settings, influx_client, init_error, probes>>

\* The list_tags tool (server.py:71-76).
ListTags ==
    /\ phase = "serving" /\ pc = "idle"
    /\ \E target \in {<<"iot">>, <<"iot", "/", "autogen">>},
          backend \in TagBackends(influx_client) :
         LET g == list_tags(influx_client, target, <<"temp">>, backend)
         IN call' = [op |-> "list_tags", target |-> target, measurement |-> <<"temp">>,
                     backend |-> backend, issued |-> g.issued, raw |-> g.out,
                     out |-> handle_query_error(g.out)]
    /\ pc' = "returned"
    /\ UNCHANGED <<phase, settings, influx_client, init_error, probes>>

\* repr(settings), as server.main logs it (server.py:223). The token and the
\* password of the settings are read by nothing else the model follows, and
\* are drawn here.
ReprSettings ==
    /\ phase = "serving" /\ pc = "idle"
    /\ \E token \in SecretInputs, password \in SecretInputs :
         call' = [op |-> "repr", token |-> token, password |-> password,
                  out |-> Return(SettingsRepr(settings, token, password))]
    /\ pc' = "returned"
    /\ UNCHANGED <<phase, settings, influx_client, init_error, probes>>

\* The window_stats tool under the error wrapper. answers are the backend's
\* answers to the sub-queries that were issued, in order.
WindowStats ==
    /\ phase = "serving" /\ pc = "idle"
    /\ \E request \in WindowStatsRequests, t1 \in ClockReadings, t2 \in ClockReadings,
          answers \in WindowAnswers(influx_client, Len(WindowAggregates)) :
         /\ t1 <= t2
         /\ LET g == window_stats(influx_client, request, t1, t2, answers)
            IN call' = [op |-> "window_stats", request |-> request, t1 |-> t1, t2 |-> t2,
                        answers |-> SubSeq(answers, 1, Len(g.issued)),
                        issued |-> g.issued, raw |-> g.out,
                        out |-> handle_query_error(g.out)]
    /\ pc' = "returned"
    /\ UNCHANGED <<phase, settings, influx_client, init_error, probes>>

\* The call's outcome reaches the caller; the request's objects are dropped.
Deliver ==
    /\ pc = "returned"
    /\ pc' = "idle"
    /\ call' = NoCall
    /\ UNCHANGED <<phase, settings, influx_client, init_error, probes>>

Next ==
    \/ ImportClient
    \/ PlaceholderCall
    \/ ParseTimeRange
    \/ QueryTimeseries
    \/ LastPointTool
    \/ ListBuckets
    \/ ListTags
    \/ ReprSettings
    \/ WindowStats
    \/ Deliver

Spec == Init /\ [][Next]_vars

(***************************************************************************)
(* Properties.                                                             *)
(***************************************************************************)
Returned(op) == pc = "returned" /\ call.op = op

\* Whether text holds part as a run of consecutive tokens.
Contains(text, part) ==
    \E i \in 0..(Len(text) - Len(part)) : SubSeq(text, i + 1, i + Len(part)) = part

\* The position of the first token tok of text, 0 when there is none.
IndexOf(text, tok) ==
    IF \E i \in 1..Len(text) : text[i] = tok
    THEN CHOOSE i \in 1..Len(text) : text[i] = tok /\ \A j \in 1..(i - 1) : text[j] # tok
    ELSE 0

\* C1: with the dialect "auto", the readiness endpoint is probed first; on 200
\* dialect B is selected and the ping endpoint is never probed; otherwise the
\* ping endpoint is probed and dialect A is selected exactly when it gives 204;
\* when neither probe succeeds a connection error is raised and the client is
\* no real one.
C1_AutoDetection ==
    (Returned("get_influx_client") /\ settings.influx_version = "auto") =>
        /\ probes # <<>> /\ probes[1] = V2_READY
        /\ call.r2 = 200 => (influx_client.version = "2" /\ probes = <<V2_READY>>)
        /\ call.r2 # 200 =>
             /\ probes = <<V2_READY, V1_PING>>
             /\ (influx_client.version = "1") <=> (call.r1 = 204)
        /\ (call.r2 # 200 /\ call.r1 # 204) =>
             /\ ~call.out.ok /\ call.out.exc = "ConnectionError"
             /\ influx_client = DummyClient

\* C2: on the placeholder client every call of ping, list_buckets_or_dbs, query,
\* write or close fails with a connection error carrying the initialisation
\* cause; none returns a value.
C2_PlaceholderFails ==
    (Returned("client_call") /\ call.name \in ProtocolMethods) =>
        /\ ~call.out.ok
        /\ call.out.exc = "ConnectionError"

\* C3: detection probes are issued only at startup and only for the dialect
\* "auto"; once the process serves, no operation issues a probe or changes
\* the selected client.
C3_DetectionOnce ==
    [][ /\ phase = "serving" => (probes' = probes /\ influx_client' = influx_client)
        /\ settings.influx_version # "auto" => probes' = <<>>
        /\ Len(probes') <= 2 ]_vars

\* C3 witness: a facade operation has answered in a process that probed at startup.
C3_Witness ==
    /\ Returned("query_timeseries") /\ call.out.ok
    /\ settings.influx_version = "auto" /\ probes # <<>>

UnitSeconds(u) == CASE u = "m" -> 60 [] u = "h" -> 3600 [] u = "d" -> 86400

\* The duration of a relative expression -<n><unit>, in seconds.
DurationOf(text) == IntOf(SubSeq(text, 2, Len(text) - 1)) * UnitSeconds(text[Len(text)])

\* C4: a relative start -<n><unit> resolves to the resolved stop instant minus
\* n units, whatever the stop expression; a relative stop resolves to the
\* current instant minus its duration.
C4_RelativeToStop ==
    Returned("parse_time_range") =>
        /\ (RelativeMatch(call.start) /\ call.out.ok) =>
              Instant(call.out.val.start)
                  = Instant(call.out.val.stop) - DurationOf(call.start)
        /\ (RelativeMatch(call.stop) /\ call.out.ok) =>
              Instant(call.out.val.stop) = call.t1 - DurationOf(call.stop)
        /\ (RelativeMatch(call.start) /\ ~Truthy(call.stop)) => call.out.ok

\* C4 witness: a relative start against an absolute stop, where stop minus the
\* duration and now minus the duration differ.
C4_Witness ==
    /\ Returned("parse_time_range") /\ call.out.ok
    /\ RelativeMatch(call.start)
    /\ call.stop = <<"2023-01-01T02:00:00", "+02:00">>
    /\ Instant(call.out.val.start) # call.t2 - DurationOf(call.start)

\* An expression that parse_time_range rejects: not now / now(), not relative
\* with unit m, h or d, and refused by the date parser at every clock reading.
Unparseable(text) ==
    /\ LowerText(text) \notin {<<"now">>, <<"now()">>}
    /\ ~RelativeMatch(text)
    /\ \A t \in ClockReadings : ~parse_iso(text, t).ok

\* An absolute ISO-8601 timestamp: a date-and-time text, alone or with a
\* timezone designator.
IsoTimestamp(text) ==
    \/ Len(text) = 1 /\ text[1] \in DateTexts
    \/ Len(text) = 2 /\ text[1] \in DateTexts /\ text[2] \in ZoneTexts

\* An expression outside the grammar of time expressions: not now / now() in
\* any case, not relative with unit m, h or d, not an absolute timestamp.
OutsideGrammar(text) ==
    /\ LowerText(text) \notin {<<"now">>, <<"now()">>}
    /\ ~RelativeMatch(text)
    /\ ~IsoTimestamp(text)

\* C5: parse_time_range fails with the invalid-time-format error, naming the
\* offending expression, and returns no range, whenever the start or the stop
\* expression is outside the grammar.
C5_Original ==
    (Returned("parse_time_range")
        /\ (OutsideGrammar(call.start)
              \/ (call.stop # None /\ OutsideGrammar(call.stop)))) =>
        /\ ~call.out.ok /\ call.out.exc = "ValueError"
        /\ \E bad \in {call.start, call.stop} :
             bad # None /\ OutsideGrammar(bad) /\ call.out.msg = InvalidTimeFormat(bad)

\* C6: both instants parse_time_range returns are normalized to UTC: an
\* absolute timestamp without timezone is taken as UTC, one with another
\* offset is returned with the offset zero.
C6_NormalizedToUtc ==
    (Returned("parse_time_range") /\ call.out.ok) =>
        /\ call.out.val.start.aware /\ call.out.val.start.off = 0
        /\ call.out.val.stop.aware /\ call.out.val.stop.off = 0

\* C7: within one parse_time_range call every "now" is resolved against one
\* anchor instant: parse_time_range("now", "now") returns start equal to stop
\* although the clock advances between the two parses.
C7_SingleAnchor ==
    (Returned("parse_time_range") /\ call.out.ok
        /\ LowerText(call.start) \in {<<"now">>, <<"now()">>}
        /\ (~Truthy(call.stop) \/ LowerText(call.stop) \in {<<"now">>, <<"now()">>})) =>
        Instant(call.out.val.start) = Instant(call.out.val.stop)

\* The number of tokens tok in text.
Count(text, tok) == Cardinality({i \in 1..Len(text) : text[i] = tok})

\* The kind of one stage of a dialect-B query, from its leading tokens.
StageKind(part) ==
    IF part = <<>> THEN "empty"
    ELSE IF part[1] = "from(bucket: \"" THEN "from"
    ELSE IF part[1] = "range(" THEN "range"
    ELSE IF part[1] = "filter(fn: (r) => "
    THEN IF Len(part) < 2 THEN "empty"
         ELSE IF part[2] = "r[\"_measurement\"] == \"" THEN "measurement"
         ELSE IF part[2] = "r[\"_field\"] == \"" THEN "field"
         ELSE IF part[2] = "r[\"" THEN "tags"
         ELSE "empty"
    ELSE IF part[1] = "aggregateWindow(every: " THEN "aggregateWindow"
    ELSE IF part[1] = "fill(usePrevious: " THEN "fill"
    ELSE IF part[1] = "interpolate.linear(every: " THEN "interpolate"
    ELSE IF part[1] = "limit(n: " THEN "limit"
    ELSE IF part[1] = "yield(name: \"results\")" THEN "yield"
    ELSE "empty"

\* The stages of a dialect-B query: the text between its pipe connectors.
Stages(q) == Split(q, PIPE)

StageKinds(q) == [i \in 1..Len(Stages(q)) |-> StageKind(Stages(q)[i])]

\* A dialect-B timeseries query was built for the request call.kw.
BuiltFlux == Returned("query_timeseries") /\ influx_client.version = "2"
                 /\ call.issued # <<>>

\* A dialect-A timeseries statement was built for the request call.kw.
BuiltInfluxQL == Returned("query_timeseries") /\ influx_client.version # "2"
                     /\ call.issued # <<>>

\* C8: the dialect-B query is, in this order: source, range, measurement filter,
\* field filter, one tag filter (exactly when the tag set is not empty, ANDing
\* all tags), the aggregation window (exactly when aggregate and window are both
\* given) with at most one fill or interpolate stage after it, limit, yield;
\* no stage is empty and no pipe connector dangles.
C8_FluxStageOrder ==
    BuiltFlux =>
        LET q == call.issued[1]
            kw == call.kw
            parts == Stages(q)
            kinds == StageKinds(q)
            n == Len(kw.tags.items)
            tagged == ~kw.tags.none /\ n > 0
            both == Truthy(kw.aggregate) /\ Truthy(kw.every)
            tagKinds == IF tagged THEN <<"tags">> ELSE <<>>
            prefix == <<"from", "range", "measurement", "field">> \o tagKinds
            suffix == <<"limit", "yield">>
        IN /\ Len(call.issued) = 1
           /\ \/ kinds = prefix \o suffix /\ ~both
              \/ kinds = prefix \o <<"aggregateWindow">> \o suffix /\ both
              \/ kinds = prefix \o <<"aggregateWindow", "fill">> \o suffix /\ both
              \/ kinds = prefix \o <<"aggregateWindow", "interpolate">> \o suffix /\ both
           /\ \A i \in 1..(Len(parts) - 1) : parts[i][Len(parts[i])] = NL
           /\ q[Len(q)] # PIPE /\ q[Len(q)] # NL
           /\ tagged =>
                /\ Count(parts[5], " and ") = n - 1
                /\ \A i \in 1..n :
                     Contains(parts[5], <<"r[\"">> \o kw.tags.items[i][1]
                                 \o <<"\"] == \"">> \o kw.tags.items[i][2] \o <<"\"">>)

\* C8 witness: a query with two tags, an aggregation window and a fill stage,
\* and one with none of the optional stages.
C8_Witness ==
    /\ BuiltFlux
    /\ Len(call.kw.tags.items) = 2
    /\ StageKinds(call.issued[1]) =
          <<"from", "range", "measurement", "field", "tags",
            "aggregateWindow", "fill", "limit", "yield">>

\* The select-list of a dialect-A statement: what stands between SELECT and FROM.
SelectList(q) == SubSeq(q, 2, IndexOf(q, " FROM ") - 1)

\* C9: in the dialect-A statement the select-list is <function>("field")
\* whenever an aggregation function is set, also without a window, and the
\* bare quoted field only when none is set.
C9_SelectList ==
    BuiltInfluxQL =>
        LET q == call.issued[1]
            kw == call.kw
        IN IF Truthy(kw.aggregate)
           THEN SelectList(q) = kw.aggregate \o <<"(\"">> \o kw.field \o <<"\")">>
           ELSE SelectList(q) = <<"\"">> \o kw.field \o <<"\"">>

\* C10: the dialect-A builder emits one statement with its clauses in the order
\* SELECT, FROM, WHERE time bounds, AND tag equalities (only with tags), GROUP BY
\* time(window), fill(policy), LIMIT n, LIMIT always present and last; the FROM
\* target is "db"."rp"."measurement" when the target has a sub-scope that is not
\* empty and "db".."measurement" otherwise.
C10_InfluxQLClauses ==
    BuiltInfluxQL =>
        LET q == call.issued[1]
            kw == call.kw
            slash == IndexOf(kw.target, "/")
            db == IF slash = 0 THEN kw.target ELSE SubSeq(kw.target, 1, slash - 1)
            rp == IF slash = 0 THEN <<>> ELSE SubSeq(kw.target, slash + 1, Len(kw.target))
            iFrom == IndexOf(q, " FROM ")
            iWhere == IndexOf(q, " WHERE ")
            iAnd == IndexOf(q, " AND ")
            iGroup == IndexOf(q, "GROUP BY time(")
            iFill == IndexOf(q, "fill(")
            iLimit == IndexOf(q, " LIMIT ")
            tagged == ~kw.tags.none /\ kw.tags.items # <<>>
        IN /\ Len(call.issued) = 1
           /\ q[1] = "SELECT " /\ 1 < iFrom /\ iFrom < iWhere /\ iWhere < iLimit
           /\ \A tok \in {"SELECT ", " FROM ", " WHERE ", " LIMIT "} : Count(q, tok) = 1
           /\ \A tok \in {"GROUP BY time(", "fill("} : Count(q, tok) <= 1
           /\ (iAnd # 0) <=> tagged
           /\ iAnd # 0 => (iWhere < iAnd /\ iAnd < iLimit)
           /\ iGroup # 0 =>
                /\ iWhere < iGroup /\ iAnd < iGroup /\ iGroup < iLimit
                /\ SubSeq(q, iGroup + 1, iGroup + Len(kw.every)) = kw.every
           /\ iFill # 0 => (iGroup # 0 /\ iGroup < iFill /\ iFill < iLimit)
           /\ iLimit = Len(q) - 1 /\ q[Len(q)] = ToString(kw.limit)
           /\ SubSeq(q, iFrom + 1, iWhere - 1) =
                 IF rp # <<>>
                 THEN <<"\"">> \o db \o <<"\".\"">> \o rp \o <<"\".\"">>
                          \o kw.measurement \o <<"\"">>
                 ELSE <<"\"">> \o db \o <<"\"..\"">> \o kw.measurement \o <<"\"">>

\* C10 witness: a statement with every clause, for a target whose sub-scope is
\* empty.
C10_Witness ==
    /\ BuiltInfluxQL
    /\ call.kw.target = <<"iot", "/">>
    /\ IndexOf(call.issued[1], " AND ") # 0
    /\ IndexOf(call.issued[1], "GROUP BY time(") # 0
    /\ IndexOf(call.issued[1], "fill(") # 0

\* The tail of a dialect-A statement, from its GROUP BY clause on.
GroupTail(q) == SubSeq(q, IndexOf(q, "GROUP BY time("), Len(q))

\* C11: in dialect A a request with fill=linear has one outcome: the statement
\* is built and issued without a fill clause, and it is the statement of the
\* other policies with the fill clause taken out; fill=none or fill=previous
\* with aggregate and window both set writes fill(<policy>) between the GROUP
\* BY clause and LIMIT.
C11_LinearFillDropped ==
    BuiltInfluxQL =>
        LET q == call.issued[1]
            kw == call.kw
            both == Truthy(kw.aggregate) /\ Truthy(kw.every)
            limit == <<" LIMIT ", ToString(kw.limit)>>
            group == <<"GROUP BY time(">> \o kw.every \o <<")">>
        IN /\ kw.fill = <<"linear">> =>
                /\ Len(call.issued) = 1
                /\ Count(q, "fill(") = 0
                /\ both => GroupTail(q) = group \o limit
                /\ (influx_client # DummyClient /\ call.backend.ok) => call.out.ok
           /\ (kw.fill \in {<<"none">>, <<"previous">>} /\ both) =>
                GroupTail(q) = group \o <<" ", "fill(">> \o kw.fill \o <<")">> \o limit

\* C11 witness: a linear request with aggregate and window answered with data.
C11_Witness ==
    /\ BuiltInfluxQL /\ call.out.ok
    /\ call.kw.fill = <<"linear">>
    /\ Truthy(call.kw.aggregate) /\ Truthy(call.kw.every)
    /\ call.out.val.series # <<>>

\* The stages of a dialect-B query that follow its aggregation window, up to
\* the limit stage.
AfterWindow(q) ==
    LET kinds == StageKinds(q)
        parts == Stages(q)
        w == CHOOSE i \in 1..Len(kinds) : kinds[i] = "aggregateWindow"
        l == CHOOSE i \in 1..Len(kinds) : kinds[i] = "limit"
    IN SubSeq(parts, w + 1, l - 1)

\* C12: in the dialect-B query, with aggregate and window both given, fill=none
\* puts no stage after the aggregation window, fill=previous puts the fill
\* stage with usePrevious true, fill=linear puts the interpolation stage and no
\* simple fill stage; without aggregate or without window there is no
\* aggregation, fill or interpolation stage, whatever the policy.
C12_FluxFillStage ==
    BuiltFlux =>
        LET q == call.issued[1]
            kw == call.kw
            both == Truthy(kw.aggregate) /\ Truthy(kw.every)
            kinds == StageKinds(q)
        IN /\ both =>
                /\ Count(q, "aggregateWindow(every: ") = 1
                /\ kw.fill = <<"none">> => AfterWindow(q) = <<>>
                /\ kw.fill = <<"previous">> =>
                      AfterWindow(q) = << <<"fill(usePrevious: ", "true", ")", NL>> >>
                /\ kw.fill = <<"linear">> =>
                      /\ Len(AfterWindow(q)) = 1
                      /\ StageKind(AfterWindow(q)[1]) = "interpolate"
                      /\ Count(q, "fill(usePrevious: ") = 0
           /\ ~both =>
                \A i \in 1..Len(kinds) :
                    kinds[i] \notin {"aggregateWindow", "fill", "interpolate"}

\* C12 witness: a linear request with aggregate and window, and a previous
\* request without a window.
C12_Witness ==
    /\ BuiltFlux
    /\ Truthy(call.kw.aggregate)
    /\ \/ call.kw.fill = <<"linear">> /\ Truthy(call.kw.every)
       \/ call.kw.fill = <<"previous">> /\ ~Truthy(call.kw.every)

RECURSIVE TotalRecords(_)
\* The number of records in the tables of a dialect-B result.
TotalRecords(tables) ==
    IF tables = <<>> THEN 0 ELSE Len(tables[1]) + TotalRecords(Tail(tables))

RECURSIVE NthRecord(_, _)
\* The k-th record of a dialect-B result, counting table after table.
NthRecord(tables, k) ==
    IF k <= Len(tables[1]) THEN tables[1][k]
    ELSE NthRecord(Tail(tables), k - Len(tables[1]))

\* The number of records the backend answered the timeseries query with.
RecordsAnswered ==
    IF influx_client.version = "2" THEN TotalRecords(call.backend.val)
    ELSE Len(call.backend.val)

\* The timeseries query reached a real backend, which answered with a result.
Answered ==
    /\ Returned("query_timeseries") /\ influx_client # DummyClient
    /\ call.issued # <<>> /\ call.backend.ok

\* C14: in both dialects a ranged timeseries query the backend answers with no
\* record returns success with an empty series and points_returned = 0; it
\* does not raise the no-data error of the last-point query.
C14_EmptySeriesSucceeds ==
    (Answered /\ RecordsAnswered = 0) =>
        /\ call.raw.ok /\ call.out.ok
        /\ call.out.val.series = <<>>
        /\ call.out.val.stats.points_returned = 0

\* C14 witness: dialect B answered with one table that has no record.
C14_Witness ==
    /\ Answered /\ influx_client.version = "2"
    /\ call.backend.val = << <<>> >>
    /\ call.out.ok

\* C15: in every successful timeseries response of either dialect,
\* points_returned is the length of the series, the series has one point per
\* backend record in table-then-record order, and the effective start and stop
\* of the stats are the instants parse_time_range resolved for the request.
C15_StatsMatchSeries ==
    (Returned("query_timeseries") /\ call.out.ok) =>
        LET kw == call.kw
            series == call.out.val.series
            stats == call.out.val.stats
            range == parse_time_range(kw.start, kw.stop, call.t1, call.t2)
        IN /\ stats.points_returned = Len(series)
           /\ Len(series) = RecordsAnswered
           /\ \A i \in 1..Len(series) :
                IF influx_client.version = "2"
                THEN /\ series[i].time_iso = isoformat(NthRecord(call.backend.val, i).time)
                     /\ series[i].value = NthRecord(call.backend.val, i).value
                ELSE series[i].time_iso = call.backend.val[i].time
           /\ range.ok
           /\ stats.start_effective_iso = isoformat(range.val.start)
           /\ stats.stop_effective_iso = isoformat(range.val.stop)
           /\ stats.start_effective_iso # kw.start

\* C15 witness: records in two tables, later records carrying earlier times,
\* for a request whose stop carries an offset.
C15_Witness ==
    /\ Returned("query_timeseries") /\ call.out.ok
    /\ influx_client.version = "2"
    /\ Len(call.backend.val) = 2
    /\ Len(call.out.val.series) = 2
    /\ call.kw.stop # None

\* The number of records the backend answered the last-point query with.
LastRecordsAnswered ==
    IF influx_client.version = "2" THEN TotalRecords(call.backend.val)
    ELSE Len(call.backend.val)

\* C13: in both dialects a last-point query the backend answers with no record
\* fails with the no-data-found error and returns no response; a response is
\* returned only when the backend returned at least one record.
C13_LastPointNoData ==
    (Returned("last_point") /\ influx_client # DummyClient) =>
        /\ (call.backend.ok /\ LastRecordsAnswered = 0) =>
              /\ call.raw = Raise("ValueError",
                                  <<"No data found for the specified criteria.">>)
              /\ ~call.out.ok
              /\ Contains(call.out.msg, <<"No data found for the specified criteria.">>)
        /\ call.out.ok => (call.backend.ok /\ LastRecordsAnswered >= 1)

\* C13 witness: no point in dialect A, and a table without records in dialect B.
C13_Witness ==
    /\ Returned("last_point") /\ influx_client # DummyClient
    /\ call.backend.ok /\ LastRecordsAnswered = 0
    /\ ~call.out.ok
    /\ influx_client.version = "2" => call.backend.val = << <<>> >>

\* C17: the dialect-A last-point statement is SELECT <"field", or * without a
\* field> FROM "<measurement>", then WHERE <tag equalities joined by AND> only
\* with a tag set that is not empty, then ORDER BY time DESC LIMIT 1; for
\* device_status, battery and device_id = abc-123 it is
\* SELECT "battery" FROM "device_status" WHERE "device_id" = 'abc-123' ORDER BY
\* time DESC LIMIT 1.
C17_LastPointStatement ==
    (Returned("last_point") /\ influx_client.version # "2") =>
        LET kw == call.kw
            q == call.issued[1]
            given == kw.field # None /\ kw.field # <<>>
            tagged == ~kw.tags.none /\ kw.tags.items # <<>>
            equalities == [i \in 1..Len(kw.tags.items) |->
                              <<"\"">> \o kw.tags.items[i][1] \o <<"\" = '">>
                                  \o kw.tags.items[i][2] \o <<"'">>]
            head == <<"SELECT ">>
                      \o (IF given THEN <<"\"">> \o kw.field \o <<"\"">> ELSE <<"*">>)
                      \o <<" FROM \"">> \o kw.measurement \o <<"\"">>
            tail == <<" ORDER BY time DESC LIMIT 1">>
        IN /\ Len(call.issued) = 1
           /\ q = head \o (IF tagged THEN <<" WHERE ">> \o Join(equalities, <<" AND ">>)
                           ELSE <<>>) \o tail
           /\ Count(q, " WHERE ") = (IF tagged THEN 1 ELSE 0)
           /\ Count(q, " AND ") = (IF tagged THEN Len(kw.tags.items) - 1 ELSE 0)
           /\ (kw.field = <<"battery">>
                 /\ kw.tags = TagDict(<< <<<<"device_id">>, <<"abc-123">>>> >>)) =>
                q = <<"SELECT ", "\"", "battery", "\"", " FROM \"", "device_status",
                      "\"", " WHERE ", "\"", "device_id", "\" = '", "abc-123", "'",
                      " ORDER BY time DESC LIMIT 1">>

\* C17 witness: the statement of the example, and one without field and tags.
C17_Witness ==
    /\ Returned("last_point") /\ influx_client.version = "1"
    /\ \/ /\ call.kw.field = <<"battery">>
          /\ call.kw.tags = TagDict(<< <<<<"device_id">>, <<"abc-123">>>> >>)
          /\ call.out.ok
       \/ call.kw.field = None /\ call.kw.tags = NoTags

\* max(1, n)
AtLeastOne(n) == IF n > 1 THEN n ELSE 1

RECURSIVE EntriesOf(_, _)
\* The number of entries claimed for the first k databases.
EntriesOf(dbs, k) ==
    IF k = 0 THEN 0 ELSE EntriesOf(dbs, k - 1) + AtLeastOne(Len(dbs[k].rps))

\* C16: the dialect-A container listing has, for each database in backend
\* order, one entry "db/rp" per retention policy when there is one or more,
\* and one entry "db" when there is none; the entries number the sum over the
\* databases of max(1, number of retention policies).
C16_ContainerListing ==
    (Returned("list_buckets_or_dbs") /\ influx_client.version = "1"
        /\ call.backend.ok) =>
        LET dbs == call.backend.val
            results == call.out.val.results
        IN /\ call.out.ok
           /\ Len(results) = EntriesOf(dbs, Len(dbs))
           /\ \A k \in 1..Len(dbs) :
                LET base == EntriesOf(dbs, k - 1)
                    rps == dbs[k].rps
                IN IF rps = <<>>
                   THEN results[base + 1].name = dbs[k].name
                   ELSE \A j \in 1..Len(rps) :
                          results[base + j].name = dbs[k].name \o <<"/">> \o rps[j].name

\* C16 witness: a database without retention policy before one with two.
C16_Witness ==
    /\ Returned("list_buckets_or_dbs") /\ influx_client.version = "1"
    /\ call.out.ok
    /\ Len(call.backend.val) = 2
    /\ call.backend.val[1].rps = <<>> /\ Len(call.backend.val[2].rps) = 2
    /\ Len(call.out.val.results) = 3
    /\ call.out.val.results[3].name = <<"iot", "/", "rp", "2">>

\* The rows of a backend answer of list_tags, as the backend ordered them: the
\* rows of the tables one table after the other, or the points.
Rows(answer) ==
    IF influx_client.version = "2"
    THEN [i \in 1..TotalRecords(answer) |-> NthRecord(answer, i)]
    ELSE answer

\* The column of a row that list_tags reads.
Cell(row, column) ==
    IF influx_client.version = "2" THEN row
    ELSE IF column = "tagKey" THEN row.tagKey ELSE row.value

\* C18: list_tags, in either dialect, issues one tag-key query and then one
\* tag-value query per discovered key, in the order of the keys; the response
\* has one entry per discovered key, and the values of a key are the first
\* min(100, n) of the n values the backend returned for it, in backend order.
C18_TagValuesPerKey ==
    (Returned("list_tags") /\ influx_client # DummyClient /\ call.backend.keys.ok
        /\ \A k \in DOMAIN call.backend.values : call.backend.values[k].ok) =>
        LET keys == Rows(call.backend.keys.val)
            tags == call.out.val.tags
        IN /\ call.out.ok
           /\ Len(call.issued) = 1 + Len(keys)
           /\ \/ Contains(call.issued[1], <<"        schema.measurementTagKeys(">>)
              \/ call.issued[1][1] = "SHOW TAG KEYS FROM \""
           /\ Len(tags) = Len(keys)
           /\ \A k \in 1..Len(keys) :
                LET key == Cell(keys[k], "tagKey")
                    returned == Rows(call.backend.values[k].val)
                    n == Len(returned)
                    kept == IF n < 100 THEN n ELSE 100
                IN /\ \/ Contains(call.issued[1 + k], <<"                tag: \"">> \o key)
                      \/ Contains(call.issued[1 + k], <<"\" WITH KEY = \"">> \o key)
                   /\ tags[k].key = key
                   /\ Len(tags[k].values) = kept
                   /\ \A i \in 1..kept : tags[k].values[i] = Cell(returned[i], "value")

\* C18 witness: two keys, one of them with more values than are kept.
C18_Witness ==
    /\ Returned("list_tags") /\ call.out.ok
    /\ Len(call.out.val.tags) = 2
    /\ Len(call.issued) = 3
    /\ Len(Rows(call.backend.values[2].val)) > TagValueLimit
    /\ Len(call.out.val.tags[2].values) = TagValueLimit
    /\ Len(call.out.val.tags[1].values) = 1

\* The text repr writes for a field whose value is the str text.
FieldText(name, text) == <<"'", name, "': ", "'">> \o text \o <<"'">>

\* The non-secret fields stand in the text unchanged.
PlainFieldsUnchanged(text) ==
    /\ Contains(text, FieldText("influx_url", settings.influx_url))
    /\ Contains(text, FieldText("influx_version", <<settings.influx_version>>))
    /\ Contains(text, FieldText("mcp_log_level", <<"INFO">>))

\* C19 as stated: repr(settings) holds no plaintext token or password; any two
\* settings that differ only in the values of the secret fields have the same
\* repr, every secret field is written "***", and every other field is
\* written unchanged.
C19_Original ==
    Returned("repr") =>
        LET text == call.out.val
        IN /\ \A p \in Plaintexts : ~Contains(text, p)
           /\ \A token \in SecretInputs, password \in SecretInputs :
                SettingsRepr(settings, token, password) = text
           /\ Contains(text, FieldText("influx_token", <<"***">>))
           /\ Contains(text, FieldText("influx_password", <<"***">>))
           /\ PlainFieldsUnchanged(text)

\* C19 amended: repr(settings) holds no plaintext token or password; any two
\* settings that differ only in the plaintexts of the secrets that are set
\* have the same repr, every secret field that is set is written "***", one
\* that is not set is written None, and every other field is written
\* unchanged.
C19_SecretsMasked ==
    Returned("repr") =>
        LET text == call.out.val
            Shown(name, secret) ==
                IF secret = NoneValue THEN Contains(text, <<"'", name, "': ", "None">>)
                ELSE Contains(text, FieldText(name, <<"***">>))
        IN /\ \A p \in Plaintexts : ~Contains(text, p)
           /\ \A token \in SecretInputs, password \in SecretInputs :
                ((token = NoneValue) = (call.token = NoneValue)
                    /\ (password = NoneValue) = (call.password = NoneValue)) =>
                    SettingsRepr(settings, token, password) = text
           /\ Shown("influx_token", call.token)
           /\ Shown("influx_password", call.password)
           /\ PlainFieldsUnchanged(text)

\* C19 witness: the settings of test_settings_repr_masks_secrets, a token and
\* a password both set.
C19_Witness ==
    /\ Returned("repr")
    /\ call.token = SecretStr(<<"a-very-secret-token">>)
    /\ call.password = SecretStr(<<"hunter2">>)
    /\ Contains(call.out.val, FieldText("influx_token", <<"***">>))

\* A backend query of the returned operation raised, or a step that builds
\* its query did.
StepRaised ==
    \/ Returned("query_timeseries") /\ (call.issued = <<>> \/ ~call.backend.ok)
    \/ Returned("last_point") /\ ~call.backend.ok
    \/ Returned("list_buckets_or_dbs") /\ ~call.backend.ok
    \/ Returned("list_tags")
          /\ \/ ~call.backend.keys.ok
             \/ \E k \in 1..(Len(call.issued) - 1) : ~call.backend.values[k].ok
    \/ Returned("window_stats")
          /\ \/ call.issued = <<>>
             \/ \E k \in 1..Len(call.answers) : ~call.answers[k].ok

\* C20: no silent recovery: whenever a backend query or a query construction
\* step raises inside a tool operation, each aggregate sub-query of
\* window_stats included, the operation fails with an error and returns no
\* success response with a default in the place of the failed part.
C20_NoSilentRecovery ==
    StepRaised => ~call.out.ok

\* A tool operation has returned to its caller.
ToolReturned ==
    pc = "returned"
    /\ call.op \in {"query_timeseries", "last_point", "list_buckets_or_dbs",
                    "list_tags", "window_stats"}

\* The text the wrapper puts before the message of an exception of this kind.
KindPrefix(exc) ==
    IF exc = "ConnectionError" THEN <<"Connection to InfluxDB failed: ">>
    ELSE IF IsValueError(exc) THEN <<"Invalid parameters or data: ">>
    ELSE <<"An unexpected internal error occurred: ">>

\* C21: every error a tool operation surfaces keeps its kind distinguishable
\* (connection failure, invalid parameters or no data, unexpected error) and
\* carries both the message of the original error and the name of the
\* operation that failed.
C21_ErrorsWrapped ==
    (ToolReturned /\ ~call.out.ok) =>
        /\ ~call.raw.ok
        /\ call.out.exc = "ToolError"
        /\ SubSeq(call.out.msg, 1, 1) = KindPrefix(call.raw.exc)
        /\ Contains(call.out.msg, call.raw.msg)
        /\ Contains(call.out.msg, <<call.op>>)

\* The numeric UTC offsets isoformat() writes.
NumericOffsets == {"+00:00", "+02:00", "-05:00"}

\* C22: in both dialects each time bound of the timeseries query text is the
\* resolved instant with exactly one timezone designator, the appended UTC
\* marker Z: no bound carries a numeric offset followed by a second marker.
C22_OneZoneDesignator ==
    (Returned("query_timeseries") /\ call.issued # <<>>) =>
        LET q == call.issued[1]
        IN /\ Count(q, "Z") = 2
           /\ \A i \in 1..Len(q) : q[i] \notin NumericOffsets
           /\ \A i \in 2..Len(q) : q[i] = "Z" => q[i - 1] \notin NumericOffsets

\* C23: when the dialect-B query has the interpolation stage of fill=linear,
\* the window of that stage is the requested downsampling window, the value
\* the aggregation window stage has, and no placeholder left as it stands.
C23_InterpolateWindow ==
    (BuiltFlux /\ call.kw.fill = <<"linear">>
        /\ Truthy(call.kw.aggregate) /\ Truthy(call.kw.every)) =>
        /\ AfterWindow(call.issued[1]) =
              << <<"interpolate.linear(every: ">> \o call.kw.every \o <<")", NL>> >>
        /\ Count(call.issued[1], "{every}") = 0

\* A time expression of the call is invalid: the start, or a stop that is given.
InvalidTimes(kw) ==
    Unparseable(kw.start) \/ (Truthy(kw.stop) /\ Unparseable(kw.stop))

\* C24: a query_timeseries call issues exactly one backend query when both
\* time expressions parse, and none when the start or the stop expression is
\* invalid: the call then fails with the time format error.
C24_OneQueryAfterParsing ==
    Returned("query_timeseries") =>
        IF InvalidTimes(call.kw)
        THEN /\ call.issued = <<>>
             /\ ~call.raw.ok /\ call.raw.exc = "ValueError"
             /\ \E bad \in {call.kw.start, call.kw.stop} :
                    call.raw.msg = InvalidTimeFormat(bad)
             /\ ~call.out.ok
        ELSE Len(call.issued) = 1

\* C24 witness: an invalid stop on a real client, whose backend would have
\* answered, and no query issued.
C24_Witness ==
    /\ Returned("query_timeseries") /\ influx_client # DummyClient
    /\ call.kw.stop = <<"today">> /\ ~Unparseable(call.kw.start)
    /\ call.backend.ok
    /\ call.issued = <<>> /\ ~call.out.ok

=============================================================================
